---- MODULE Spec2Model ----
(***************************************************************************)
(* QSpringies: the entity store (System), the integrators and the contact  *)
(* resolver (Physics), and the scene file reader and writer.               *)
(*                                                                         *)
(* C++ doubles are modelled as exact rationals <<n, d>> in lowest terms    *)
(* with d > 0, plus +inf, -inf and NaN; floating-point rounding is not     *)
(* modelled, except where a definition says so.  Vectors are functions on 0 .. n-1, so that the     *)
(* indices of the model are the indices of the code.                       *)
(***************************************************************************)
EXTENDS Integers, Sequences, FiniteSets, TLC

VARIABLES
    system_,        \* MainWindow::system_ : the System (masses_, springs_, state_)
    physics_,       \* MainWindow::physics_ : width_, height_ and advance()'s statics
    pc,             \* where Physics::advance() stands: "idle" or "restart"
    file_,          \* the scene file fileSave wrote last
    savedSystem_,   \* MainWindow::savedSystem_ : the System stateSave copied
    canvas_,        \* Canvas::mouseDown_, staticSpring_, selection_, shiftKeyDown_, startPoint_
    last            \* history: the name of the operation that produced this state

vars == <<system_, physics_, pc, file_, savedSystem_, canvas_, last>>

---------------------------------------------------------------------------
(* Rational arithmetic.                                                    *)

Abs(i) == IF i < 0 THEN -i ELSE i
Sgn(i) == IF i > 0 THEN 1 ELSE IF i < 0 THEN -1 ELSE 0

RECURSIVE Gcd(_, _)
Gcd(a, b) == IF b = 0 THEN a ELSE Gcd(b, a % b)

\* A double: a rational <<n, d>> in lowest terms with d > 0, or one of the
\* three non-finite values a division by zero produces
Inf == <<1, 0>>
NegInf == <<-1, 0>>
NaN == <<0, 0>>

\* n / d for d > 0, with g the greatest common divisor of n and d
Lowest(n, d, g) == <<n \div g, d \div g>>
Rat(n, d) ==
    IF d = 0 THEN <<Sgn(n), 0>>
    ELSE IF d < 0 THEN Lowest(-n, -d, Gcd(Abs(n), -d))
    ELSE Lowest(n, d, Gcd(Abs(n), d))

R(i) == <<i, 1>>
Zero == <<0, 1>>
One == <<1, 1>>
IsFinite(a) == a[2] # 0
IsNaN(a) == a = <<0, 0>>

\* a + b over the common denominator, g the greatest common divisor of the two
AddOver(a, b, g) ==
    Rat(a[1] * (b[2] \div g) + b[1] * (a[2] \div g), (a[2] \div g) * b[2])
RAdd(a, b) ==
    IF a[2] = 0 THEN (IF b[2] # 0 \/ a = b THEN a ELSE NaN)
    ELSE IF b[2] = 0 THEN b
    ELSE AddOver(a, b, Gcd(a[2], b[2]))
RNeg(a) == <<-a[1], a[2]>>
RSub(a, b) == RAdd(a, RNeg(b))
\* a * b, reduced crosswise by g1 = gcd(a[1], b[2]) and g2 = gcd(b[1], a[2])
MulOver(a, b, g1, g2) ==
    <<(a[1] \div g1) * (b[1] \div g2), (a[2] \div g2) * (b[2] \div g1)>>
RMul(a, b) ==
    IF a[2] = 0 \/ b[2] = 0 THEN <<Sgn(a[1]) * Sgn(b[1]), 0>>
    ELSE IF a[1] = 0 \/ b[1] = 0 THEN Zero
    ELSE MulOver(a, b, Gcd(Abs(a[1]), b[2]), Gcd(Abs(b[1]), a[2]))
\* 1 / a: 1 / 0 is +inf (the model has no negative zero), 1 / inf is 0
RInv(a) ==
    IF a[2] = 0 THEN (IF a[1] = 0 THEN NaN ELSE Zero)
    ELSE IF a[1] < 0 THEN <<-a[2], -a[1]>> ELSE <<a[2], a[1]>>
RDiv(a, b) == RMul(a, RInv(b))
\* Comparisons: every comparison with NaN is false
LtOver(a, b, g) == a[1] * (b[2] \div g) < b[1] * (a[2] \div g)
RLt(a, b) ==
    IF a[2] # 0 /\ b[2] # 0 THEN LtOver(a, b, Gcd(a[2], b[2]))
    ELSE /\ ~IsNaN(a) /\ ~IsNaN(b)
         /\ a # b /\ (a = NegInf \/ b = Inf)
RLe(a, b) == (a = b /\ ~IsNaN(a)) \/ RLt(a, b)
RGt(a, b) == RLt(b, a)
RGe(a, b) == RLe(b, a)
RAbs(a) == <<Abs(a[1]), a[2]>>
RSquare(a) == RMul(a, a)
RMax(a, b) == IF RLt(a, b) THEN b ELSE a

\* A vector with every element computed, once
Vector(f) == f @@ <<>>

\* The largest k in lo .. hi with k * k <= n
RECURSIVE ISqrtBetween(_, _, _)
ISqrtBetween(n, lo, hi) ==
    IF lo >= hi THEN lo
    ELSE LET mid == (lo + hi + 1) \div 2
         IN  IF mid * mid <= n THEN ISqrtBetween(n, mid, hi)
             ELSE ISqrtBetween(n, lo, mid - 1)
ISqrt(n) == ISqrtBetween(n, 0, IF n < 46340 THEN n ELSE 46340)

\* sqrt(a) with rn, rd the whole roots of the numerator and the denominator:
\* exact on the squares of rationals, otherwise rounded down to two or three
\* decimals (a double rounds to 53 bits)
SqrtOf(a, rn, rd) ==
    IF rn * rn = a[1] /\ rd * rd = a[2] THEN <<rn, rd>>
    ELSE IF a[1] < 2000 THEN Rat(ISqrt((a[1] * 10^6) \div a[2]), 1000)
    ELSE IF a[1] < 200000 THEN Rat(ISqrt((a[1] * 10^4) \div a[2]), 100)
    ELSE R(ISqrt(a[1] \div a[2]))
Sqrt(a) ==
    IF a[2] = 0 \/ a[1] < 0 THEN (IF a = Inf THEN Inf ELSE NaN)
    ELSE SqrtOf(a, ISqrt(a[1]), ISqrt(a[2]))

\* The first `digits` decimals of rem / d (rem < d), as an integer
RECURSIVE Decimals(_, _, _, _)
Decimals(rem, d, digits, acc) ==
    IF digits = 0 THEN acc
    ELSE Decimals((rem * 10) % d, d, digits - 1, acc * 10 + (rem * 10) \div d)

\* A non-negative double kept to six decimals
Round6(a) == Rat((a[1] \div a[2]) * 10^6 + Decimals(a[1] % a[2], a[2], 6, 0), 10^6)

---------------------------------------------------------------------------
(* Bounds of the model.                                                    *)

MaxMasses == 4          \* Spec: masses_.size() never exceeds this (fake mass included)
MaxSprings == 3         \* Spec: springs_.size() never exceeds this (fake spring included)
MaxFakeParents == 2     \* Spec: the fake mass's parent list never grows beyond this
MaxDupMasses == 5       \* SpecDup: masses_.size() never exceeds this
MaxDupSprings == 3      \* SpecDup: springs_.size() never exceeds this
MaxAdaptiveMasses == 3  \* SpecAdaptive: masses_.size() never exceeds this
MaxAdaptiveSprings == 2 \* SpecAdaptive: springs_.size() never exceeds this
MaxAdaptiveTicks == 2   \* SpecAdaptive: advance() is called at most this often
MaxCollideTicks == 1    \* SpecCollide: advance() is called at most this often
MaxFileMasses == 4      \* SpecFile: masses_.size() never exceeds this
MaxFileSprings == 3     \* SpecFile: springs_.size() never exceeds this
MaxPhysTicks == 2       \* SpecPhys: advance() is called at most this often
MaxPacerTicks == 10     \* SpecPacer: advance() is called at most this often
MaxStateMasses == 3     \* SpecState: masses_.size() never exceeds this
MaxStateSprings == 2    \* SpecState: springs_.size() never exceeds this
MaxStateTicks == 1      \* SpecState: advance() is called at most this often
MaxReconnectMasses == 4 \* SpecReconnect: masses_.size() never exceeds this
MaxReconnectSprings == 3 \* SpecReconnect: springs_.size() never exceeds this
MaxCenterTicks == 1     \* SpecCenter: advance() is called at most this often
MaxSpringSprings == 2   \* SpecSpring: springs_.size() never exceeds this
MaxSpringTicks == 1     \* SpecSpring: advance() is called at most this often
MaxSpringParents == 3   \* SpecSpring: the fake mass's parent list never grows beyond this

---------------------------------------------------------------------------
(* Data model: system.h, state.h.                                          *)

S_ALIVE == "ALIVE"
S_SELECTED == "SELECTED"
S_FIXED == "FIXED"
S_TEMPFIXED == "TEMPFIXED"

BF_NUM == 4
FR_GRAV == 0
FR_CMASS == 1
FR_PTATTRACT == 2
FR_WALL == 3
DEF_TSTEP == Rat(25, 1000)

\* Mass::Mass(): everything zero, status S_ALIVE.  The Runge-Kutta scratch
\* fields other than old_* are locals of the integrator operators.
NewMass ==
    [x |-> Zero, y |-> Zero, vx |-> Zero, vy |-> Zero, ax |-> Zero, ay |-> Zero,
     mass |-> Zero, elastic |-> Zero, radius |-> 0, parents |-> <<>>,
     status |-> {S_ALIVE},
     old_x |-> Zero, old_y |-> Zero, old_vx |-> Zero, old_vy |-> Zero]

\* Spring::Spring()
NewSpring ==
    [ks |-> Zero, kd |-> Zero, restlen |-> Zero, m1 |-> 0, m2 |-> 0,
     status |-> {S_ALIVE}]

\* State::reset()
StateReset ==
    [cur_mass |-> One, cur_rest |-> One, cur_ks |-> One, cur_kd |-> One,
     fix_mass |-> FALSE, show_spring |-> TRUE, center_id |-> -1,
     force_enabled |-> [i \in 0 .. BF_NUM - 1 |-> FALSE],
     cur_grav_val |-> [i \in 0 .. BF_NUM - 1 |->
                          CASE i = FR_GRAV -> R(10) [] i = FR_CMASS -> R(5)
                            [] i = FR_PTATTRACT -> R(10) [] OTHER -> R(10000)],
     cur_misc_val |-> [i \in 0 .. BF_NUM - 1 |->
                          CASE i = FR_GRAV -> Zero [] i = FR_CMASS -> R(2)
                            [] i = FR_PTATTRACT -> Zero [] OTHER -> One],
     cur_visc |-> Zero, cur_stick |-> Zero, cur_dt |-> DEF_TSTEP, cur_prec |-> One,
     adaptive_step |-> FALSE, grid_snap |-> FALSE, cur_gsnap |-> R(20),
     w_top |-> TRUE, w_left |-> TRUE, w_right |-> TRUE, w_bottom |-> TRUE,
     collide |-> FALSE]

massCount(sys) == Cardinality(DOMAIN sys.masses_)
springCount(sys) == Cardinality(DOMAIN sys.springs_)

isAlive(e) == S_ALIVE \in e.status
isSelected(e) == S_SELECTED \in e.status
isFixed(e) == S_FIXED \in e.status
isTempFixed(e) == S_TEMPFIXED \in e.status
setFlag(e, flag, on) ==
    [e EXCEPT !.status = IF on THEN @ \cup {flag} ELSE @ \ {flag}]
setAlive(e, on) == setFlag(e, S_ALIVE, on)
setSelected(e, on) == setFlag(e, S_SELECTED, on)
setFixed(e, on) == setFlag(e, S_FIXED, on)
setTempFixed(e, on) == setFlag(e, S_TEMPFIXED, on)
toggleSelected(e) == setSelected(e, ~isSelected(e))

\* misc.cpp massRadius: (int)(2 * log(4.0 * m + 1.0)) clamped to 1 .. 64, tabulated
\* on the breakpoints of the logarithm, for masses below 22 (m < 1.6 gives 1 .. 3).
massRadius(m) ==
    IF RLt(m, Rat(162, 1000)) THEN 1        \* 2*log(4m+1) < 1, raised to 1
    ELSE IF RLt(m, Rat(429, 1000)) THEN 1   \* 1 <= 2*log(4m+1) < 2
    ELSE IF RLt(m, Rat(870, 1000)) THEN 2
    ELSE IF RLt(m, Rat(1597, 1000)) THEN 3
    ELSE IF RLt(m, Rat(2795, 1000)) THEN 4
    ELSE IF RLt(m, Rat(4771, 1000)) THEN 5
    ELSE IF RLt(m, Rat(8029, 1000)) THEN 6
    ELSE IF RLt(m, Rat(13400, 1000)) THEN 7
    ELSE 8

\* misc.cpp sphereSize, sphereRadius; misc.h screenRadius
sphereSize(rad0) ==
    LET rad1 == (25 + 2 * rad0) \div 2
        rad == IF rad1 < 15 THEN 15 ELSE rad1
        size == IF rad * 2 >= 30 THEN (rad * 2 - 30) \div 10 ELSE 0
    IN  IF size > 4 THEN 4 ELSE size
sphereRadius(size) == (size * 10 + 30) \div 2
screenRadius(radius) == sphereRadius(sphereSize(radius))

---------------------------------------------------------------------------
(* Entity store: system.cpp.  Every operator takes the System and returns  *)
(* the System after the call.                                              *)

\* vector::resize(num + 1): a default-constructed element at index num
createMass(sys) ==
    LET num == massCount(sys)
    IN  [sys EXCEPT !.masses_ = [i \in 0 .. num |-> IF i < num THEN @[i] ELSE NewMass]]

createSpring(sys) ==
    LET num == springCount(sys)
    IN  [sys EXCEPT !.springs_ = [i \in 0 .. num |-> IF i < num THEN @[i] ELSE NewSpring]]

\* masses_[which] with `which` outside the vector is undefined behaviour, which
\* fileLoad accounts for; here the access changes nothing
addMassParent(sys, which, parent) ==
    IF which \in DOMAIN sys.masses_
    THEN [sys EXCEPT !.masses_[which].parents = Append(@, parent)]
    ELSE sys

\* std::find + erase: the first occurrence only
RECURSIVE EraseFirst(_, _)
EraseFirst(seq, v) ==
    IF seq = <<>> THEN <<>>
    ELSE IF Head(seq) = v THEN Tail(seq)
    ELSE <<Head(seq)>> \o EraseFirst(Tail(seq), v)

deleteMassParent(sys, which, parent) ==
    IF which \in DOMAIN sys.masses_ /\ isAlive(sys.masses_[which])
    THEN [sys EXCEPT !.masses_[which].parents = EraseFirst(@, parent)]
    ELSE sys

deleteSpring(sys, which) ==
    LET spring == sys.springs_[which]
    IN  IF isAlive(spring)
        THEN deleteMassParent(
                 deleteMassParent([sys EXCEPT !.springs_[which].status = {}],
                                  spring.m1, which),
                 spring.m2, which)
        ELSE sys

\* for (int par : masses_[which].parents) deleteSpring(par);
RECURSIVE DeleteSprings(_, _)
DeleteSprings(sys, pars) ==
    IF pars = <<>> THEN sys
    ELSE DeleteSprings(deleteSpring(sys, Head(pars)), Tail(pars))

deleteMass(sys, which) ==
    LET s1 == IF isAlive(sys.masses_[which])
              THEN DeleteSprings([sys EXCEPT !.masses_[which].status = {}],
                                 sys.masses_[which].parents)
              ELSE sys
    IN  IF which = s1.state_.center_id
        THEN [s1 EXCEPT !.state_.center_id = -1]
        ELSE s1

RECURSIVE DeleteSelectedMasses(_, _, _)
DeleteSelectedMasses(sys, i, n) ==
    IF i >= n THEN sys
    ELSE DeleteSelectedMasses(
             IF isSelected(sys.masses_[i]) THEN deleteMass(sys, i) ELSE sys, i + 1, n)

RECURSIVE DeleteSelectedSprings(_, _, _)
DeleteSelectedSprings(sys, i, n) ==
    IF i >= n THEN sys
    ELSE DeleteSelectedSprings(
             IF isSelected(sys.springs_[i]) THEN deleteSpring(sys, i) ELSE sys, i + 1, n)

deleteSelected(sys) ==
    LET s1 == DeleteSelectedMasses(sys, 0, massCount(sys))
    IN  DeleteSelectedSprings(s1, 0, springCount(s1))

\* System::initObjects
initObjects(sys) ==
    LET fakeMass == massCount(sys)
        s1 == [createMass(sys) EXCEPT !.masses_[fakeMass].status = {S_FIXED}]
        fakeSpring == springCount(s1)
        s2 == [createSpring(s1) EXCEPT !.springs_[fakeSpring].status = {}]
        s3 == addMassParent(s2, fakeMass, fakeSpring)
    IN  [s3 EXCEPT !.springs_[fakeSpring].m1 = fakeMass,
                   !.fakeMass_ = fakeMass, !.fakeSpring_ = fakeSpring]

\* System::System(): State::State() then initObjects()
NewSystem ==
    initObjects([masses_ |-> <<>>, springs_ |-> <<>>, state_ |-> StateReset,
                 fakeMass_ |-> 0, fakeSpring_ |-> 0])

attachFakeSpring(sys, tomass) ==
    LET s1 == addMassParent(sys, sys.fakeMass_, sys.fakeSpring_)
        f == sys.fakeSpring_
    IN  [s1 EXCEPT !.springs_[f] =
            [setAlive(@, TRUE) EXCEPT !.m2 = tomass,
                                      !.ks = sys.state_.cur_ks,
                                      !.kd = sys.state_.cur_kd]]

moveFakeMass(sys, mx, my) ==
    [sys EXCEPT !.masses_[sys.fakeMass_].x = R(mx), !.masses_[sys.fakeMass_].y = R(my)]

killFakeSpring(sys) ==
    [sys EXCEPT !.springs_[sys.fakeSpring_] = setAlive(@, FALSE)]

selectObject(sys, selection, is_mass, shifted) ==
    IF is_mass
    THEN [sys EXCEPT !.masses_[selection] =
              IF shifted THEN toggleSelected(@) ELSE setSelected(@, TRUE)]
    ELSE [sys EXCEPT !.springs_[selection] =
              IF shifted THEN toggleSelected(@) ELSE setSelected(@, TRUE)]

unselectAll(sys) ==
    [sys EXCEPT !.masses_ = [i \in DOMAIN @ |-> setSelected(@[i], FALSE)],
                !.springs_ = [i \in DOMAIN @ |-> setSelected(@[i], FALSE)]]

selectAll(sys) ==
    [sys EXCEPT
        !.masses_ = [i \in DOMAIN @ |->
                        IF isAlive(@[i]) THEN setSelected(@[i], TRUE) ELSE @[i]],
        !.springs_ = [i \in DOMAIN @ |->
                        IF isAlive(@[i]) THEN setSelected(@[i], TRUE) ELSE @[i]]]

anythingSelected(sys) ==
    \/ \E i \in DOMAIN sys.masses_ : isSelected(sys.masses_[i])
    \/ \E i \in DOMAIN sys.springs_ : isSelected(sys.springs_[i])

\* a != b on doubles: NaN differs from everything, itself included
RNe(a, b) == IsNaN(a) \/ IsNaN(b) \/ a # b

\* evalSelection: [sys, changed].  The first selected mass gives sel_mass,
\* sel_elas, sel_fix; a later selected mass clears mass_same if its mass differs,
\* elas_same if its elasticity differs, and fix_same if it is FIXED.  The first
\* selected spring gives sel_ks, sel_kd; a later selected spring clears ks_same
\* if its ks differs (the test is written twice), and nothing clears kd_same
evalSelection(sys) ==
    LET st == sys.state_
        selMasses == {i \in DOMAIN sys.masses_ : isSelected(sys.masses_[i])}
        selSprings == {i \in DOMAIN sys.springs_ : isSelected(sys.springs_[i])}
        firstMass == CHOOSE i \in selMasses : \A j \in selMasses : i <= j
        firstSpring == CHOOSE i \in selSprings : \A j \in selSprings : i <= j
        sel_mass == sys.masses_[firstMass].mass
        sel_elas == sys.masses_[firstMass].elastic
        sel_fix == isFixed(sys.masses_[firstMass])
        sel_ks == sys.springs_[firstSpring].ks
        sel_kd == sys.springs_[firstSpring].kd
        mass_same == \A i \in selMasses \ {firstMass} : ~RNe(sys.masses_[i].mass, sel_mass)
        elas_same == \A i \in selMasses \ {firstMass} : ~RNe(sys.masses_[i].elastic, sel_elas)
        fix_same == \A i \in selMasses \ {firstMass} : ~isFixed(sys.masses_[i])
        ks_same == \A i \in selSprings \ {firstSpring} : ~RNe(sys.springs_[i].ks, sel_ks)
        kd_same == TRUE
        newMass == selMasses # {} /\ mass_same /\ RNe(sel_mass, st.cur_mass)
        newElas == selMasses # {} /\ elas_same /\ RNe(sel_elas, st.cur_rest)
        newFix == selMasses # {} /\ fix_same /\ sel_fix # st.fix_mass
        newKs == selSprings # {} /\ ks_same /\ RNe(sel_ks, st.cur_ks)
        newKd == selSprings # {} /\ kd_same /\ RNe(sel_kd, st.cur_kd)
    IN  [sys |-> [sys EXCEPT
                     !.state_.cur_mass = IF newMass THEN sel_mass ELSE @,
                     !.state_.cur_rest = IF newElas THEN sel_elas ELSE @,
                     !.state_.fix_mass = IF newFix THEN sel_fix ELSE @,
                     !.state_.cur_ks = IF newKs THEN sel_ks ELSE @,
                     !.state_.cur_kd = IF newKd THEN sel_kd ELSE @],
         changed |-> newMass \/ newElas \/ newFix \/ newKs \/ newKd]

MPROXIMITY == 8
SPROXIMITY == 8

\* nearestObject, "Find closest mass", the masses from i on: an ALIVE mass is
\* taken if its squared distance less its squared screen radius is below
\* min_dist and its squared distance (rating) is below min_rating; min_dist is
\* then that of the mass taken.  The result is [closest, min_dist, min_rating]
RECURSIVE ClosestMass(_, _, _, _, _)
ClosestMass(sys, x, y, i, best) ==
    LET m == sys.masses_[i]
        rating == RAdd(RSquare(RSub(m.x, R(x))), RSquare(RSub(m.y, R(y))))
        dist == RSub(rating, R(screenRadius(m.radius) * screenRadius(m.radius)))
        Taken == IF isAlive(m) /\ RLt(dist, best.min_dist) /\ RLt(rating, best.min_rating)
                 THEN [closest |-> i, min_dist |-> dist, min_rating |-> rating]
                 ELSE best
    IN  IF i >= massCount(sys) THEN best
        ELSE ClosestMass(sys, x, y, i + 1, Taken)

\* nearestObject, "Find closest spring", the springs from i on: an ALIVE spring
\* is taken if (x, y) is in the box of its ends widened by SPROXIMITY and nearer
\* to the line through them than min_dist.  The result is [closest, min_dist]
RECURSIVE ClosestSpring(_, _, _, _, _)
ClosestSpring(sys, x, y, i, best) ==
    LET s == sys.springs_[i]
        x1 == sys.masses_[s.m1].x
        y1 == sys.masses_[s.m1].y
        x2 == sys.masses_[s.m2].x
        y2 == sys.masses_[s.m2].y
        Least(a, b) == IF RLt(b, a) THEN b ELSE a
        Most(a, b) == IF RLt(a, b) THEN b ELSE a
        InBox ==
            /\ RGt(R(x), RSub(Least(x1, x2), R(SPROXIMITY)))
            /\ RLt(R(x), RAdd(Most(x1, x2), R(SPROXIMITY)))
            /\ RGt(R(y), RSub(Least(y1, y2), R(SPROXIMITY)))
            /\ RLt(R(y), RAdd(Most(y1, y2), R(SPROXIMITY)))
        a1 == RSub(y2, y1)
        b1 == RSub(x1, x2)
        c1 == RSub(RMul(y1, x2), RMul(y2, x1))
        dAB == Sqrt(RAdd(RSquare(a1), RSquare(b1)))
        dist == RAbs(RDiv(RAdd(RAdd(RMul(R(x), a1), RMul(R(y), b1)), c1), dAB))
        Taken == IF isAlive(s) /\ InBox /\ RLt(dist, best.min_dist)
                 THEN [closest |-> i, min_dist |-> dist]
                 ELSE best
    IN  IF i >= springCount(sys) THEN best
        ELSE ClosestSpring(sys, x, y, i + 1, Taken)

\* nearestObject(x, y, is_mass): [closest, is_mass], with masses_only the value
\* of *is_mass at the call
nearestObject(sys, x, y, masses_only) ==
    LET mass == ClosestMass(sys, x, y, 0,
                    [closest |-> -1,
                     min_dist |-> IF masses_only
                                  THEN R(MPROXIMITY * MPROXIMITY * 36)
                                  ELSE R(MPROXIMITY * MPROXIMITY),
                     min_rating |-> Inf])
        spring == ClosestSpring(sys, x, y, 0, [closest |-> -1, min_dist |-> R(SPROXIMITY)])
    IN  IF mass.closest # -1 THEN [closest |-> mass.closest, is_mass |-> TRUE]
        ELSE IF masses_only THEN [closest |-> -1, is_mass |-> TRUE]
        ELSE [closest |-> spring.closest, is_mass |-> spring.closest = -1]

\* selectObjects(ulx, uly, lrx, lry): the ALIVE masses in the box, and the ALIVE
\* springs with both ends in it, selected
selectObjects(sys, ulx, uly, lrx, lry) ==
    LET In(m) == /\ RLe(R(ulx), m.x) /\ RLe(m.x, R(lrx))
                 /\ RLe(R(uly), m.y) /\ RLe(m.y, R(lry))
    IN  [sys EXCEPT
            !.masses_ = [i \in DOMAIN @ |->
                IF isAlive(@[i]) /\ In(@[i]) THEN setSelected(@[i], TRUE) ELSE @[i]],
            !.springs_ = [i \in DOMAIN @ |->
                IF /\ isAlive(@[i])
                   /\ In(sys.masses_[@[i].m1]) /\ In(sys.masses_[@[i].m2])
                THEN setSelected(@[i], TRUE) ELSE @[i]]]

\* reconnectMasses: the parents cleared, then every spring, whatever its status,
\* registered with both its ends
RECURSIVE ReconnectFrom(_, _)
ReconnectFrom(sys, i) ==
    IF i >= springCount(sys) THEN sys
    ELSE ReconnectFrom(addMassParent(addMassParent(sys, sys.springs_[i].m1, i),
                                     sys.springs_[i].m2, i), i + 1)
\* A rebuild that leaves in the lists what they held
AppendParents(sys) == ReconnectFrom(sys, 0)

reconnectMasses(sys) ==
    ReconnectFrom([sys EXCEPT !.masses_ =
                      [i \in DOMAIN @ |-> [@[i] EXCEPT !.parents = <<>>]]], 0)

\* System::setCenter: the one selected mass becomes the center, none selected
\* clears it, more than one leaves it as it is
setCenter(sys) ==
    LET sel == {i \in DOMAIN sys.masses_ : isSelected(sys.masses_[i])}
    IN  IF Cardinality(sel) > 1 THEN sys
        ELSE [sys EXCEPT !.state_.center_id =
                 IF sel = {} THEN -1 ELSE CHOOSE i \in sel : TRUE]

\* System::reset: deleteAll(); initObjects(); state_.reset()
reset(sys) ==
    [initObjects([sys EXCEPT !.masses_ = <<>>, !.springs_ = <<>>]) EXCEPT
        !.state_ = StateReset]

isFakeSpring(sys, spring) == spring = sys.fakeSpring_

\* duplicateSelected, first loop: one copy per selected mass, unselected, no parents
RECURSIVE DuplicateMasses(_, _)
DuplicateMasses(acc, i) ==
    IF i >= massCount(acc.sys) THEN acc
    ELSE IF isSelected(acc.sys.masses_[i])
    THEN LET which == massCount(acc.sys)
             s1 == createMass(acc.sys)
             copy == [setSelected(s1.masses_[i], FALSE) EXCEPT !.parents = <<>>]
         IN  DuplicateMasses([sys |-> [s1 EXCEPT !.masses_[which] = copy],
                              mapfrom |-> Append(acc.mapfrom, i),
                              mapto |-> Append(acc.mapto, which)], i + 1)
    ELSE DuplicateMasses(acc, i + 1)

\* A remap loop that stops at the first endpoint it maps
RECURSIVE RemapFirstEndOnly(_, _, _, _, _)
RemapFirstEndOnly(acc, which, j, mapfrom, mapto) ==
    IF acc.m1done \/ acc.m2done \/ j > Len(mapfrom) THEN acc
    ELSE LET a1 == IF acc.sys.springs_[which].m1 = mapfrom[j]
                   THEN [acc EXCEPT
                            !.sys = addMassParent(
                                        [@ EXCEPT !.springs_[which].m1 = mapto[j]],
                                        mapto[j], which),
                            !.m1done = TRUE]
                   ELSE acc
             a2 == IF ~a1.m1done /\ a1.sys.springs_[which].m2 = mapfrom[j]
                   THEN [a1 EXCEPT
                            !.sys = addMassParent(
                                        [@ EXCEPT !.springs_[which].m2 = mapto[j]],
                                        mapto[j], which),
                            !.m2done = TRUE]
                   ELSE a1
         IN  RemapFirstEndOnly(a2, which, j + 1, mapfrom, mapto)

\* for (j = 0; (!m1done || !m2done) && j < num_map; j++): remap the endpoints of
\* spring `which` and register it with the copies (mapfrom, mapto are 1-based here)
RECURSIVE RemapEnds(_, _, _, _, _)
RemapEnds(acc, which, j, mapfrom, mapto) ==
    IF (acc.m1done /\ acc.m2done) \/ j > Len(mapfrom) THEN acc
    ELSE LET a1 == IF ~acc.m1done /\ acc.sys.springs_[which].m1 = mapfrom[j]
                   THEN [acc EXCEPT
                            !.sys = addMassParent(
                                        [@ EXCEPT !.springs_[which].m1 = mapto[j]],
                                        mapto[j], which),
                            !.m1done = TRUE]
                   ELSE acc
             a2 == IF ~a1.m2done /\ a1.sys.springs_[which].m2 = mapfrom[j]
                   THEN [a1 EXCEPT
                            !.sys = addMassParent(
                                        [@ EXCEPT !.springs_[which].m2 = mapto[j]],
                                        mapto[j], which),
                            !.m2done = TRUE]
                   ELSE a1
         IN  RemapEnds(a2, which, j + 1, mapfrom, mapto)

\* if (!m1done && !m2done) deleteSpring(which);
DeleteIfUnmapped(acc, which) ==
    IF ~acc.m1done /\ ~acc.m2done THEN deleteSpring(acc.sys, which) ELSE acc.sys

\* duplicateSelected, second loop: one copy per selected spring below spring_start
RECURSIVE DuplicateSprings(_, _, _, _, _)
DuplicateSprings(sys, i, spring_start, mapfrom, mapto) ==
    IF i >= spring_start THEN sys
    ELSE IF isSelected(sys.springs_[i])
    THEN LET which == springCount(sys)
             s1 == createSpring(sys)
             s2 == [s1 EXCEPT !.springs_[which] = setSelected(s1.springs_[i], FALSE)]
             acc == RemapEnds([sys |-> s2, m1done |-> FALSE, m2done |-> FALSE],
                              which, 1, mapfrom, mapto)
         IN  DuplicateSprings(DeleteIfUnmapped(acc, which),
                              i + 1, spring_start, mapfrom, mapto)
    ELSE DuplicateSprings(sys, i + 1, spring_start, mapfrom, mapto)

duplicateSelected(sys) ==
    LET spring_start == springCount(sys)
        dm == DuplicateMasses([sys |-> sys, mapfrom |-> <<>>, mapto |-> <<>>], 0)
    IN  DuplicateSprings(dm.sys, 0, spring_start, dm.mapfrom, dm.mapto)

---------------------------------------------------------------------------
(* Physics: phys.cpp.                                                      *)

DT_MIN == Rat(1, 10000)
DT_MAX == Rat(1, 2)
STICK_MAG == One
NAIL_SIZE == 4

\* COORD_DX, COORD_DY: screen to world, y grows upwards
COORD_DX(dx) == dx
COORD_DY(dy) == RNeg(dy)

\* sin and cos of a whole number of quarter turns, in degrees
SinDeg(a) == CASE a[1] % 360 = 0 -> Zero [] a[1] % 360 = 90 -> One
               [] a[1] % 360 = 180 -> Zero [] a[1] % 360 = 270 -> R(-1)
CosDeg(a) == CASE a[1] % 360 = 0 -> One [] a[1] % 360 = 90 -> Zero
               [] a[1] % 360 = 180 -> R(-1) [] a[1] % 360 = 270 -> Zero

\* pow(base, e) for a whole exponent e >= 0
RECURSIVE RPow(_, _)
RPow(base, e) == IF e[1] <= 0 THEN One ELSE RMul(base, RPow(base, RSub(e, One)))

\* The sum of f[i] over i in lo .. hi
RECURSIVE RSum(_, _, _)
RSum(f, lo, hi) == IF lo > hi THEN Zero ELSE RAdd(f[lo], RSum(f, lo + 1, hi))

\* A test that takes every ALIVE mass for a free one
isAliveOnly(m) == isAlive(m)

\* (m.status & S_ALIVE) && !(m.status & S_FIXED)
isFree(m) == isAlive(m) /\ ~isFixed(m)

\* accumulateAccel, applied forces: gravity, center of mass, viscous drag, point
\* attraction and wall forces give ax, ay of every free mass
AppliedForces(sys, width_, height_) ==
    LET mst == sys.state_
        centerAlive == mst.center_id >= 0 /\ isAlive(sys.masses_[mst.center_id])
        center_id == IF centerAlive THEN mst.center_id ELSE -1
        center == IF centerAlive
                  THEN <<sys.masses_[mst.center_id].x, sys.masses_[mst.center_id].y>>
                  ELSE <<Rat(width_, 2), Rat(height_, 2)>>
        \* gravity
        g == IF mst.force_enabled[FR_GRAV]
             THEN <<COORD_DX(RMul(mst.cur_grav_val[FR_GRAV],
                                  SinDeg(mst.cur_misc_val[FR_GRAV]))),
                    COORD_DY(RMul(mst.cur_grav_val[FR_GRAV],
                                  CosDeg(mst.cur_misc_val[FR_GRAV])))>>
             ELSE <<Zero, Zero>>
        \* center of mass: msum, and mixix .. miviy before the division
        Sum(field) ==
            RSum([i \in DOMAIN sys.masses_ |->
                     IF i # center_id /\ isFree(sys.masses_[i])
                     THEN (IF field = "mass" THEN sys.masses_[i].mass
                           ELSE RMul(sys.masses_[i].mass, sys.masses_[i][field]))
                     ELSE Zero], 0, massCount(sys) - 1)
        Og(msum, mixi, mivi, c) ==
            RNeg(RDiv(RAdd(RMul(mst.cur_grav_val[FR_CMASS], RSub(RDiv(mixi, msum), c)),
                           RMul(mst.cur_misc_val[FR_CMASS], RDiv(mivi, msum))),
                      msum))
        CenterOfMass(msum) ==
            IF msum # Zero
            THEN <<Og(msum, Sum("x"), Sum("vx"), center[1]),
                   Og(msum, Sum("y"), Sum("vy"), center[2])>>
            ELSE <<Zero, Zero>>
        og == IF mst.force_enabled[FR_CMASS] THEN CenterOfMass(Sum("mass"))
              ELSE <<Zero, Zero>>
        \* gravity, center of mass and air drag
        Dragged(m, o) ==
            [m EXCEPT !.ax = RSub(RAdd(g[1], o[1]), RMul(mst.cur_visc, m.vx)),
                      !.ay = RSub(RAdd(g[2], o[2]), RMul(mst.cur_visc, m.vy))]
        \* point attraction
        Pulled(m, dx, dy, mag, fmag) ==
            [m EXCEPT !.ax = RAdd(@, RDiv(RMul(fmag, dx), mag)),
                      !.ay = RAdd(@, RDiv(RMul(fmag, dy), mag))]
        Towards(m, dx, dy, mag) ==
            Pulled(m, dx, dy, mag,
                   RDiv(mst.cur_grav_val[FR_PTATTRACT],
                        RPow(mag, mst.cur_misc_val[FR_PTATTRACT])))
        Near(m, dx, dy, mag, lim) ==
            IF RLt(mag, lim)
            THEN Towards(m, RMul(dx, RDiv(mag, lim)), RMul(dy, RDiv(mag, lim)), lim)
            ELSE Towards(m, dx, dy, mag)
        At(m, dx, dy) ==
            Near(m, dx, dy, Sqrt(RAdd(RSquare(dx), RSquare(dy))),
                 RAdd(R(m.radius), One))
        Attracted(m) ==
            IF mst.force_enabled[FR_PTATTRACT]
            THEN At(m, RSub(center[1], m.x), RSub(center[2], m.y))
            ELSE m
        \* wall attract/repel
        Pull(on, dist) ==
            IF on /\ RGe(dist, Zero)
            THEN RDiv(RNeg(mst.cur_grav_val[FR_WALL]),
                      RPow(RMax(dist, One), mst.cur_misc_val[FR_WALL]))
            ELSE Zero
        Between(m, rad) ==
            [m EXCEPT
                !.ax = RAdd(@, RSub(Pull(mst.w_right, RSub(RSub(R(width_), rad), m.x)),
                                    Pull(mst.w_left, RSub(m.x, rad)))),
                !.ay = RAdd(@, RSub(Pull(mst.w_top, RSub(RSub(R(height_), rad), m.y)),
                                    Pull(mst.w_bottom, RSub(m.y, rad))))]
        Walled(m) ==
            IF mst.force_enabled[FR_WALL] THEN Between(m, R(screenRadius(m.radius)))
            ELSE m
    IN  [sys EXCEPT
            !.state_.center_id = center_id,
            !.masses_ = Vector([i \in DOMAIN @ |->
                IF isFree(@[i])
                THEN Walled(Attracted(Dragged(@[i], IF i # center_id THEN og
                                                   ELSE <<Zero, Zero>>)))
                ELSE @[i]])]

\* accumulateAccel, spring effects: spring i adds its compression and damping
\* force to the accelerations of both its ends
RECURSIVE SpringForces(_, _)
SpringForces(sys, i) ==
    LET Pushed(s, mass1, mass2, forcex, forcey) ==
            [sys EXCEPT !.masses_[s.m1].ax = RAdd(@, RDiv(forcex, mass1)),
                        !.masses_[s.m1].ay = RAdd(@, RDiv(forcey, mass1)),
                        !.masses_[s.m2].ax = RSub(@, RDiv(forcex, mass2)),
                        !.masses_[s.m2].ay = RSub(@, RDiv(forcey, mass2))]
        Forced(s, m1, m2, dx, dy, force) ==
            Pushed(s, m1.mass, m2.mass, RMul(force, dx), RMul(force, dy))
        Damped(s, m1, m2, dx, dy, mag, force) ==
            Forced(s, m1, m2, dx, dy,
                   RDiv(IF s.kd # Zero
                        THEN RSub(force,
                                  RMul(s.kd, RDiv(RAdd(RMul(RSub(m1.vx, m2.vx), dx),
                                                       RMul(RSub(m1.vy, m2.vy), dy)),
                                                  mag)))
                        ELSE force, mag))
        Stretched(s, m1, m2, dx, dy, mag) ==
            Damped(s, m1, m2, dx, dy, mag, RMul(s.ks, RSub(s.restlen, mag)))
        Apart(s, m1, m2, dx, dy) ==
            IF dx # Zero \/ dy # Zero
            THEN Stretched(s, m1, m2, dx, dy, Sqrt(RAdd(RSquare(dx), RSquare(dy))))
            ELSE sys
        Between(s, m1, m2) ==
            IF isAlive(s) THEN Apart(s, m1, m2, RSub(m1.x, m2.x), RSub(m1.y, m2.y))
            ELSE sys
        Effect(s) == Between(s, sys.masses_[s.m1], sys.masses_[s.m2])
    IN  IF i >= springCount(sys) THEN sys
        ELSE SpringForces(Effect(sys.springs_[i]), i + 1)

accumulateAccel(sys, width_, height_) ==
    SpringForces(AppliedForces(sys, width_, height_), 0)

\* k = h * (vx, vy, ax, ay) of every mass, as the k-th stage stores it
StageK(sys, h) ==
    Vector([i \in DOMAIN sys.masses_ |->
        [x |-> RMul(sys.masses_[i].vx, h), y |-> RMul(sys.masses_[i].vy, h),
         vx |-> RMul(sys.masses_[i].ax, h), vy |-> RMul(sys.masses_[i].ay, h)]])

\* The working values of an integrator step: the system, cur_x .. cur_vy of its
\* masses, and k1, k2, ... as far as the stages have got
BeginStep(sys) == [sys |-> sys, cur |-> sys.masses_, k |-> <<>>]

\* coefs[j] * k[j] + ... for mass i, field f, over the stages from j on; a stage
\* the formula does not name has the coefficient 0
RECURSIVE Combine(_, _, _, _, _)
Combine(coefs, k, j, i, f) ==
    IF j > Len(coefs) THEN Zero
    ELSE IF coefs[j] = Zero THEN Combine(coefs, k, j + 1, i, f)
    ELSE RAdd(RMul(coefs[j], k[j][i][f]), Combine(coefs, k, j + 1, i, f))

\* m.x = m.cur_x + c1 * m.k1x + ..., likewise y, vx, vy, for every free mass
Place(sys, cur, k, coefs) ==
    [sys EXCEPT !.masses_ =
        Vector([i \in DOMAIN @ |->
            IF isFree(@[i])
            THEN [@[i] EXCEPT !.x = RAdd(cur[i].x, Combine(coefs, k, 1, i, "x")),
                              !.y = RAdd(cur[i].y, Combine(coefs, k, 1, i, "y")),
                              !.vx = RAdd(cur[i].vx, Combine(coefs, k, 1, i, "vx")),
                              !.vy = RAdd(cur[i].vy, Combine(coefs, k, 1, i, "vy"))]
            ELSE @[i]])]

\* The three parts of a stage: accumulateAccel(), the loop that stores the next
\* k, and the placement of the masses for the stage after it
Accelerated(rk, width_, height_) ==
    [rk EXCEPT !.sys = accumulateAccel(@, width_, height_)]
WithK(rk, h) == [rk EXCEPT !.k = Append(@, StageK(rk.sys, h))]
Placed(rk, coefs) == [rk EXCEPT !.sys = Place(@, rk.cur, rk.k, coefs)]
Stage(rk, coefs, h, width_, height_) ==
    Placed(WithK(Accelerated(rk, width_, height_), h), coefs)

\* The stages of a step one after another; rows[n] holds the weights of the
\* placement that follows the n-th derivative
RECURSIVE Stages(_, _, _, _, _)
Stages(rk, rows, h, width_, height_) ==
    IF rows = <<>> THEN rk
    ELSE Stages(Stage(rk, Head(rows), h, width_, height_), Tail(rows),
                h, width_, height_)

\* rungeKutta(h, false): the classical fourth-order step; the last placement is
\* cur + (k1/2 + k2 + k3 + k4/2) / 3
rungeKutta(sys, h, width_, height_) ==
    Stages(BeginStep(sys),
           <<<<Rat(1, 2)>>,
             <<Zero, Rat(1, 2)>>,
             <<Zero, Zero, One>>,
             <<Rat(1, 6), Rat(1, 3), Rat(1, 3), Rat(1, 6)>>>>,
           h, width_, height_).sys

\* adaptiveRungeKutta, one pass from `restart` to the error test with the step
\* h = cur_dt: five stages, then the sixth derivative, which places no mass: the
\* masses are where the fifth stage put them until the verdict moves them
RKF45(sys, width_, height_) ==
    WithK(Accelerated(
              Stages(BeginStep(sys),
                     <<<<Rat(2, 10)>>,
                       <<Rat(3, 40), Rat(9, 40)>>,
                       <<Rat(3, 10), Rat(-9, 10), Rat(12, 10)>>,
                       <<Rat(-11, 54), Rat(25, 10), Rat(-70, 27), Rat(35, 27)>>,
                       <<Rat(1631, 55926), Rat(175, 512), Rat(575, 13824),
                         Rat(44275, 110592), Rat(253, 4096)>>>>,
                     sys.state_.cur_dt, width_, height_),
              width_, height_),
          sys.state_.cur_dt)

\* The fifth-order weights of the accepted step, and the weights of its error
\* estimate: the fifth-order weights less the fourth-order ones
NextCoefs == <<Rat(37, 378), Zero, Rat(250, 621), Rat(125, 594), Zero,
               Rat(512, 1771)>>
ErrCoefs == <<RSub(Rat(37, 378), Rat(2825, 27648)), Zero,
              RSub(Rat(250, 621), Rat(18575, 48384)),
              RSub(Rat(125, 594), Rat(13525, 55296)),
              Rat(-277, 14336),
              RSub(Rat(512, 1771), Rat(1, 4))>>

\* err = fabs(x) + fabs(y) + fabs(vx) + fabs(vy) of the error estimate of mass i
Err(k, i) ==
    RAdd(RAdd(RAbs(Combine(ErrCoefs, k, 1, i, "x")),
              RAbs(Combine(ErrCoefs, k, 1, i, "y"))),
         RAdd(RAbs(Combine(ErrCoefs, k, 1, i, "vx")),
              RAbs(Combine(ErrCoefs, k, 1, i, "vy"))))

\* maxerr = 0.00001; if (err > maxerr) maxerr = err;  over the free masses from
\* i on
RECURSIVE MaxErr(_, _, _)
MaxErr(rk, i, maxerr) ==
    IF i >= massCount(rk.sys) THEN maxerr
    ELSE IF ~isFree(rk.sys.masses_[i]) THEN MaxErr(rk, i + 1, maxerr)
    ELSE MaxErr(rk, i + 1, RMax(maxerr, Err(rk.k, i)))

\* exp(-log(maxerr) / 8.0) and exp(-log(maxerr) / 4.0): the 8th and the 4th root
\* of 1 / maxerr
ExpNegLog8(maxerr) == Sqrt(Sqrt(Sqrt(RInv(maxerr))))
ExpNegLog4(maxerr) == Sqrt(Sqrt(RInv(maxerr)))

\* A time step that no factor changes
KeepDt(cur_dt, factor) == cur_dt

\* cur_dt *= 0.9 * factor, kept to six decimals
ScaleDt(cur_dt, factor) ==
    IF ~IsFinite(cur_dt) \/ ~IsFinite(factor) THEN RMul(cur_dt, factor)
    ELSE Round6(RMul(Round6(RMul(cur_dt, Rat(9, 10))), factor))

\* restart: the clamp of cur_dt to DT_MIN .. DT_MAX
ClampDt(cur_dt) ==
    LET up == IF RGt(cur_dt, DT_MAX) THEN DT_MAX ELSE cur_dt
    IN  IF RLt(up, DT_MIN) THEN DT_MIN ELSE up

\* A rejected pass that leaves the masses where its last stage put them
NoRollback(sys) == sys

\* The rollback of a rejected pass: x, y, vx, vy of every free mass from old_*
Rollback(sys) ==
    [sys EXCEPT !.masses_ =
        Vector([i \in DOMAIN @ |->
            IF isFree(@[i])
            THEN LET m == @[i]
                 IN  [m EXCEPT !.x = m.old_x, !.y = m.old_y,
                               !.vx = m.old_vx, !.vy = m.old_vy]
            ELSE @[i]])]

\* The end of a pass whose error, over the precision, is maxerr: accepted with
\* a longer step, rejected with a shorter one (`again`: goto restart), or
\* accepted at DT_MIN whatever the error
Verdict(rk, h, maxerr) ==
    IF RLt(maxerr, One)
    THEN [sys |-> [Place(rk.sys, rk.cur, rk.k, NextCoefs) EXCEPT
                      !.state_.cur_dt = ScaleDt(h, ExpNegLog8(maxerr))],
          again |-> FALSE, maxerr |-> maxerr]
    ELSE IF RGt(h, DT_MIN)
    THEN [sys |-> [Rollback(rk.sys) EXCEPT
                      !.state_.cur_dt = ScaleDt(h, ExpNegLog4(maxerr))],
          again |-> TRUE, maxerr |-> maxerr]
    ELSE [sys |-> Place(rk.sys, rk.cur, rk.k, NextCoefs), again |-> FALSE,
          maxerr |-> maxerr]

\* maxerr /= cur_prec, and the verdict
Judged(rk) ==
    Verdict(rk, rk.sys.state_.cur_dt,
            RDiv(MaxErr(rk, 0, Rat(1, 100000)), rk.sys.state_.cur_prec))

\* adaptiveRungeKutta, one pass of the restart loop: [sys, again, maxerr]
AdaptivePass(sys, width_, height_) ==
    Judged(RKF45([sys EXCEPT !.state_.cur_dt = ClampDt(@)], width_, height_))

\* advance: "Save initial values"
SaveOld(sys) ==
    [sys EXCEPT !.masses_ =
        Vector([i \in DOMAIN @ |->
            IF isFree(@[i])
            THEN LET m == @[i]
                 IN  [m EXCEPT !.old_x = m.x, !.old_y = m.y,
                               !.old_vx = m.vx, !.old_vy = m.vy]
            ELSE @[i]])]

anySpring(sys) == \E i \in DOMAIN sys.springs_ : isAlive(sys.springs_[i])

\* "Delete exploded objects": x - x != 0.0 holds of the non-finite values only
Exploded(m) ==
    \/ RSub(m.ax, m.ax) # Zero \/ RSub(m.ay, m.ay) # Zero
    \/ RSub(m.x, m.x) # Zero \/ RSub(m.y, m.y) # Zero

\* A wall nothing sticks to
NeverStuck(m, mst, rad, width_, height_, stick_mag) == FALSE

\* "Check if stuck to a wall": the mass started the step at rest on an enabled
\* wall and the step gave it less than stick_mag / mass of speed off the wall;
\* rad is its screen radius
Stuck(m, mst, rad, width_, height_, stick_mag) ==
    LET Near(d) == RLt(RAbs(d), Rat(1, 2))
    IN  /\ m.old_vx = Zero /\ m.old_vy = Zero
        /\ IF \/ mst.w_left /\ Near(RSub(m.old_x, rad))
              \/ mst.w_right /\ Near(RAdd(RSub(m.old_x, R(width_)), rad))
           THEN RLt(RAbs(m.vx), RDiv(stick_mag, m.mass))
           ELSE /\ \/ mst.w_bottom /\ Near(RSub(m.old_y, rad))
                   \/ mst.w_top /\ Near(RAdd(RSub(m.old_y, R(height_)), rad))
                /\ RLt(RAbs(m.vy), RDiv(stick_mag, m.mass))

\* The rebound off a wall the mass moved into: the normal speed `vn` (positive
\* into the wall) and the tangential speed `vt` after it, <<vn, vt>>
Rebound(m, mst, vn, vt) ==
    LET \* "Get stuck if not going fast enough"
        Slowed(slow, drag) ==
            IF RLt(slow, Zero) THEN <<Zero, Zero>> ELSE <<RNeg(slow), drag>>
        Back(back, drag) ==
            IF RGt(back, Zero)
            THEN Slowed(RSub(back, RDiv(RMul(STICK_MAG, mst.cur_stick), m.mass)), drag)
            ELSE <<RNeg(back), drag>>
    IN  IF RGt(vn, Zero) THEN Back(RMul(vn, m.elastic), RMul(vt, m.elastic))
        ELSE <<vn, vt>>

\* Side walls that a mass passes through
PassX(m, mst, rad, width_) == m

\* "Bounce off left or right wall"
BounceX(m, mst, rad, width_) ==
    LET Left(v) == [m EXCEPT !.x = rad, !.vx = RNeg(v[1]), !.vy = v[2]]
        Right(x, v) == [m EXCEPT !.x = x, !.vx = v[1], !.vy = v[2]]
        Walls(right) ==
            IF mst.w_left /\ RLt(m.x, rad) /\ RGe(m.old_x, rad)
            THEN Left(Rebound(m, mst, RNeg(m.vx), m.vy))
            ELSE IF mst.w_right /\ RGt(m.x, right) /\ RLe(m.old_x, right)
            THEN Right(right, Rebound(m, mst, m.vx, m.vy))
            ELSE m
    IN  Walls(RSub(R(width_), rad))

\* "Stick to top or bottom wall"
BounceY(m, mst, rad, height_) ==
    LET Bottom(v) == [m EXCEPT !.y = rad, !.vy = RNeg(v[1]), !.vx = v[2]]
        Top(y, v) == [m EXCEPT !.y = y, !.vy = v[1], !.vx = v[2]]
        Walls(top) ==
            IF mst.w_bottom /\ RLt(m.y, rad) /\ RGe(m.old_y, rad)
            THEN Bottom(Rebound(m, mst, RNeg(m.vy), m.vx))
            ELSE IF mst.w_top /\ RGt(m.y, top) /\ RLe(m.old_y, top)
            THEN Top(top, Rebound(m, mst, m.vy, m.vx))
            ELSE m
    IN  Walls(RSub(R(height_), rad))

\* "Crappy wall code": the loop over the masses from i on
RECURSIVE WallPass(_, _, _, _, _)
WallPass(sys, i, width_, height_, stick_mag) ==
    LET Hit(m, rad) ==
            IF ~isFree(m) THEN sys
            ELSE IF Exploded(m) THEN deleteMass(sys, i)
            ELSE IF Stuck(m, sys.state_, rad, width_, height_, stick_mag)
            THEN [sys EXCEPT !.masses_[i] =
                     [m EXCEPT !.vx = Zero, !.vy = Zero,
                               !.x = m.old_x, !.y = m.old_y]]
            ELSE [sys EXCEPT !.masses_[i] =
                     BounceY(BounceX(m, sys.state_, rad, width_),
                             sys.state_, rad, height_)]
    IN  IF i >= massCount(sys) THEN sys
        ELSE WallPass(Hit(sys.masses_[i], R(screenRadius(sys.masses_[i].radius))),
                      i + 1, width_, height_, stick_mag)

\* if (dx == 0) dx = 1e-10;  the model's rationals hold 1e-6 at the smallest.
\* The value cancels in the new vy and leaves a vx of its order.
TINY_DX == Rat(1, 10^6)

\* An impact that a mass takes as if the other one stood still
ImpactOnStill(avx, avy, bvx, bvy, ratio, dx, dy, dxq, dyq, sumxyq) ==
    LET Vy(vx) == <<vx, RAdd(RMul(RSub(vx, avx), RDiv(dy, dx)), avy)>>
    IN  Vy(RSub(RAdd(RMul(RSub(avx, RMul(avx, ratio)), RDiv(dxq, sumxyq)),
                     RMul(avx, RDiv(dyq, sumxyq))),
                RMul(RMul(avy, ratio), RDiv(RMul(dx, dy), sumxyq))))

\* The velocity <<vx, vy>> of a mass with velocity (avx, avy) after the impact
\* of one with velocity (bvx, bvy), along (dx, dy)
ImpactVelocity(avx, avy, bvx, bvy, ratio, dx, dy, dxq, dyq, sumxyq) ==
    LET Vy(vx) == <<vx, RAdd(RMul(RSub(vx, avx), RDiv(dy, dx)), avy)>>
    IN  Vy(RSub(RAdd(RMul(RSub(avx, RMul(RSub(avx, bvx), ratio)),
                          RDiv(dxq, sumxyq)),
                     RMul(avx, RDiv(dyq, sumxyq))),
                RMul(RMul(RSub(avy, bvy), ratio), RDiv(RMul(dx, dy), sumxyq))))

\* "Oblique impact" of masses i < j; m1x, m1y are the position of mass i
CollidePair(sys, i, j, m1x, m1y) ==
    LET m1 == sys.masses_[i]
        m2 == sys.masses_[j]
        Radius(m) == IF isFixed(m) THEN NAIL_SIZE ELSE m.radius
        Ratio(a, b, bounce) ==
            IF isFixed(b) THEN bounce
            ELSE RDiv(bounce, RAdd(One, RDiv(a.mass, b.mass)))
        After(a, b, bounce, dx, dy, dxq, dyq) ==
            ImpactVelocity(a.vx, a.vy, b.vx, b.vy, Ratio(a, b, bounce),
                           dx, dy, dxq, dyq, RAdd(dxq, dyq))
        Set(v1, v2) ==
            [sys EXCEPT !.masses_[i].vx = IF isFixed(m1) THEN @ ELSE v1[1],
                        !.masses_[i].vy = IF isFixed(m1) THEN @ ELSE v1[2],
                        !.masses_[j].vx = IF isFixed(m2) THEN @ ELSE v2[1],
                        !.masses_[j].vy = IF isFixed(m2) THEN @ ELSE v2[2]]
        Impact(bounce, dx, dy, dxq, dyq) ==
            Set(After(m1, m2, bounce, dx, dy, dxq, dyq),
                After(m2, m1, bounce, dx, dy, dxq, dyq))
        Close(dx, dy, dxq, dyq) ==
            IF /\ RLt(Sqrt(RAdd(dxq, dyq)), R(Radius(m1) + Radius(m2)))
               /\ \/ RGt(RMul(RSub(m1.vx, m2.vx), dx), Zero)
                  \/ RGt(RMul(RSub(m1.vy, m2.vy), dy), Zero)
            THEN Impact(RAdd(One, RDiv(RAdd(m1.elastic, m2.elastic), R(2))),
                        IF dx = Zero THEN TINY_DX ELSE dx, dy, dxq, dyq)
            ELSE sys
        Apart(dx, dy) == Close(dx, dy, RSquare(dx), RSquare(dy))
    IN  IF isAlive(m2) THEN Apart(RSub(m2.x, m1x), RSub(m2.y, m1y)) ELSE sys

\* for (j = i+1; j < massCount(); j++)
RECURSIVE CollideWith(_, _, _, _, _)
CollideWith(sys, i, j, m1x, m1y) ==
    IF j >= massCount(sys) THEN sys
    ELSE CollideWith(CollidePair(sys, i, j, m1x, m1y), i, j + 1, m1x, m1y)

\* for (i = 0; i < massCount(); i++)
RECURSIVE CollideFrom(_, _)
CollideFrom(sys, i) ==
    IF i >= massCount(sys) THEN sys
    ELSE CollideFrom(IF isAlive(sys.masses_[i])
                     THEN CollideWith(sys, i, i + 1, sys.masses_[i].x, sys.masses_[i].y)
                     ELSE sys, i + 1)

ObliqueImpact(sys) == IF sys.state_.collide THEN CollideFrom(sys, 0) ELSE sys

\* A pacer without the count of the calls since the last redraw
PacerUnguarded(ph, cur_dt) ==
    LET elapsed == RAdd(ph.time_elapsed, cur_dt)
    IN  IF RGt(elapsed, Rat(5, 100))
        THEN [ph EXCEPT !.time_elapsed = RSub(elapsed, Rat(5, 100)),
                        !.num_since = 0, !.redraw = TRUE]
        ELSE [ph EXCEPT !.time_elapsed = elapsed, !.num_since = @ + 1,
                        !.redraw = FALSE]

\* A pacer that drops the time left over when a redraw is due
PacerReset(ph, cur_dt) ==
    LET elapsed == RAdd(ph.time_elapsed, cur_dt)
    IN  IF RGt(elapsed, Rat(5, 100))
        THEN [ph EXCEPT !.time_elapsed = Zero, !.num_since = 0, !.redraw = TRUE]
        ELSE IF ph.num_since + 1 > 8
        THEN [ph EXCEPT !.time_elapsed = elapsed, !.num_since = 0, !.redraw = TRUE]
        ELSE [ph EXCEPT !.time_elapsed = elapsed, !.num_since = @ + 1,
                        !.redraw = FALSE]

\* The frame pacer at the end of advance: the statics and the value returned
FramePacer(ph, cur_dt) ==
    LET elapsed == RAdd(ph.time_elapsed, cur_dt)
    IN  IF RGt(elapsed, Rat(5, 100))
        THEN [ph EXCEPT !.time_elapsed = RSub(elapsed, Rat(5, 100)),
                        !.num_since = 0, !.redraw = TRUE]
        ELSE IF ph.num_since + 1 > 8
        THEN [ph EXCEPT !.time_elapsed = elapsed, !.num_since = 0, !.redraw = TRUE]
        ELSE [ph EXCEPT !.time_elapsed = elapsed, !.num_since = @ + 1,
                        !.redraw = FALSE]

\* advance, after the integrator: walls, then collisions
Contacts(sys, width_, height_) ==
    LET stick_mag == RMul(RMul(STICK_MAG, sys.state_.cur_dt), sys.state_.cur_stick)
    IN  ObliqueImpact(WallPass(sys, 0, width_, height_, stick_mag))

\* A fixed step that always takes the time step as it is
StepAtCurDt(sys, width_, height_) ==
    rungeKutta(sys, sys.state_.cur_dt, width_, height_)

\* advance, when adaptiveRungeKutta is not used: rungeKutta with DEF_TSTEP
\* (adaptive, no ALIVE spring) or with cur_dt
FixedStep(sys, width_, height_) ==
    LET dt == IF sys.state_.adaptive_step THEN DEF_TSTEP ELSE sys.state_.cur_dt
    IN  rungeKutta([sys EXCEPT !.state_.cur_dt = dt], dt, width_, height_)

---------------------------------------------------------------------------
(* Scene files: file.cpp.  A file is the sequence of its lines, a line is   *)
(* its command word and the texts of its arguments.  The text of a number   *)
(* is its sign, its significant decimal digits (no leading and no trailing  *)
(* zero) and the decimal exponent of the first of them.                     *)

MAGIC_CMD == "#1.0"
FILE_PRECISION == 12

\* The decimal digits of a natural number, <<>> for 0
RECURSIVE DigitsOf(_)
DigitsOf(n) == IF n = 0 THEN <<>> ELSE Append(DigitsOf(n \div 10), n % 10)

\* The decimals of rem / d (rem < d) up to `left` significant digits
RECURSIVE FractionDigits(_, _, _, _)
FractionDigits(rem, d, left, started) ==
    IF left <= 0 \/ rem = 0 THEN <<>>
    ELSE <<(rem * 10) \div d>> \o
         FractionDigits((rem * 10) % d, d,
                        IF started \/ (rem * 10) \div d # 0 THEN left - 1 ELSE left,
                        started \/ (rem * 10) \div d # 0)

RECURSIVE LeadingZeros(_)
LeadingZeros(ds) ==
    IF ds # <<>> /\ Head(ds) = 0 THEN 1 + LeadingZeros(Tail(ds)) ELSE 0

RECURSIVE StripZeros(_)
StripZeros(ds) ==
    IF ds # <<>> /\ ds[Len(ds)] = 0 THEN StripZeros(SubSeq(ds, 1, Len(ds) - 1))
    ELSE ds

\* One more in the last place
RECURSIVE Increment(_)
Increment(ds) ==
    IF ds = <<>> THEN <<1>>
    ELSE IF ds[Len(ds)] = 9 THEN Append(Increment(SubSeq(ds, 1, Len(ds) - 1)), 0)
    ELSE [ds EXCEPT ![Len(ds)] = @ + 1]

\* QTextStream << double with setRealNumberPrecision(12): the digits `all` of
\* the number, the first of them of the decimal exponent exp, are cut to twelve
\* significant digits, rounded on the thirteenth
Text(neg, ds, exp) == [special |-> "", neg |-> neg, digits |-> StripZeros(ds),
                       exp |-> IF StripZeros(ds) = <<>> THEN 0 ELSE exp]
Rounded(neg, sig, exp) ==
    IF Len(sig) <= FILE_PRECISION THEN Text(neg, sig, exp)
    ELSE IF sig[FILE_PRECISION + 1] < 5
    THEN Text(neg, SubSeq(sig, 1, FILE_PRECISION), exp)
    ELSE IF \A i \in 1 .. FILE_PRECISION : sig[i] = 9 THEN Text(neg, <<1>>, exp + 1)
    ELSE Text(neg, Increment(SubSeq(sig, 1, FILE_PRECISION)), exp)
Significant(neg, all, zeros, exp) ==
    Rounded(neg, SubSeq(all, zeros + 1, Len(all)), exp - zeros)
Expanded(neg, whole, rem, d) ==
    Significant(neg,
                whole \o FractionDigits(rem, d, FILE_PRECISION + 1 - Len(whole),
                                        whole # <<>>),
                IF whole = <<>>
                THEN LeadingZeros(FractionDigits(rem, d, FILE_PRECISION + 1, FALSE))
                ELSE 0,
                Len(whole) - 1)
Format(a) ==
    IF a[2] = 0
    THEN [special |-> IF a[1] = 0 THEN "nan" ELSE "inf", neg |-> a[1] < 0,
          digits |-> <<>>, exp |-> 0]
    ELSE Expanded(a[1] < 0, DigitsOf(Abs(a[1]) \div a[2]), Abs(a[1]) % a[2], a[2])

\* QTextStream >> double: the number a text stands for
RECURSIVE ValueOf(_)
ValueOf(ds) ==
    IF ds = <<>> THEN 0 ELSE ValueOf(SubSeq(ds, 1, Len(ds) - 1)) * 10 + ds[Len(ds)]
Scaled(v, e) == IF e >= 0 THEN R(v * 10^e) ELSE Rat(v, 10^(-e))
Parse(t) ==
    IF t.special = "nan" THEN NaN
    ELSE IF t.special = "inf" THEN (IF t.neg THEN NegInf ELSE Inf)
    ELSE Scaled(IF t.neg THEN -ValueOf(t.digits) ELSE ValueOf(t.digits),
                t.exp - Len(t.digits) + 1)

\* QTextStream << int and >> int
FormatInt(i) == Format(R(i))
ParseInt(t) == Parse(t)[1]
Flag(b) == IF b THEN 1 ELSE 0

Line(cmd, args) == [cmd |-> cmd, args |-> args]

\* fileSave: the "mass" lines of the ALIVE masses from i on
RECURSIVE SaveMasses(_, _)
SaveMasses(sys, i) ==
    LET Saved(mass) ==
            <<Line("mass", <<FormatInt(i), Format(mass.x), Format(mass.y),
                             Format(mass.vx), Format(mass.vy),
                             Format(IF isFixed(mass) THEN RNeg(mass.mass)
                                    ELSE mass.mass),
                             Format(mass.elastic)>>)>>
    IN  IF i >= massCount(sys) THEN <<>>
        ELSE (IF isAlive(sys.masses_[i]) THEN Saved(sys.masses_[i]) ELSE <<>>)
             \o SaveMasses(sys, i + 1)

\* fileSave: the "spng" lines of the ALIVE springs from i on
RECURSIVE SaveSprings(_, _)
SaveSprings(sys, i) ==
    LET Saved(spring) ==
            <<Line("spng", <<FormatInt(i), FormatInt(spring.m1), FormatInt(spring.m2),
                             Format(spring.ks), Format(spring.kd),
                             Format(spring.restlen)>>)>>
    IN  IF i >= springCount(sys) THEN <<>>
        ELSE (IF isAlive(sys.springs_[i]) THEN Saved(sys.springs_[i]) ELSE <<>>)
             \o SaveSprings(sys, i + 1)

\* fileSave: the settings
SaveState(state) ==
    <<Line(MAGIC_CMD, <<>>),
      Line("cmas", <<Format(state.cur_mass)>>),
      Line("elas", <<Format(state.cur_rest)>>),
      Line("kspr", <<Format(state.cur_ks)>>),
      Line("kdmp", <<Format(state.cur_kd)>>),
      Line("fixm", <<FormatInt(Flag(state.fix_mass))>>),
      Line("shws", <<FormatInt(Flag(state.show_spring))>>),
      Line("cent", <<FormatInt(state.center_id)>>)>>
    \o [i \in 1 .. BF_NUM |->
           Line("frce", <<FormatInt(i - 1), FormatInt(Flag(state.force_enabled[i - 1])),
                          Format(state.cur_grav_val[i - 1]),
                          Format(state.cur_misc_val[i - 1])>>)]
    \o <<Line("frce", <<FormatInt(BF_NUM), FormatInt(Flag(state.collide)),
                        FormatInt(0), FormatInt(0)>>),
         Line("visc", <<Format(state.cur_visc)>>),
         Line("stck", <<Format(state.cur_stick)>>),
         Line("step", <<Format(state.cur_dt)>>),
         Line("prec", <<Format(state.cur_prec)>>),
         Line("adpt", <<FormatInt(Flag(state.adaptive_step))>>),
         Line("gsnp", <<Format(state.cur_gsnap), FormatInt(Flag(state.grid_snap))>>),
         Line("wall", <<FormatInt(Flag(state.w_top)), FormatInt(Flag(state.w_left)),
                        FormatInt(Flag(state.w_right)),
                        FormatInt(Flag(state.w_bottom))>>)>>

fileSave(sys) == SaveState(sys.state_) \o SaveMasses(sys, 0) \o SaveSprings(sys, 0)

\* fileLoad, a "mass" line: mass_num x y vx vy mass elastic
ReadMass(ld, args, selectNew) ==
    LET which == massCount(ld.sys)
        Sized(sys, mass, fixed) ==
            [sys EXCEPT !.masses_[which] =
                [@ EXCEPT !.x = Parse(args[2]), !.y = Parse(args[3]),
                          !.vx = Parse(args[4]), !.vy = Parse(args[5]),
                          !.mass = mass, !.elastic = Parse(args[7]),
                          !.status = IF fixed THEN @ \cup {S_FIXED} ELSE @,
                          !.radius = massRadius(mass)]]
        Read(sys, mass) ==
            Sized(sys,
                  IF RLt(mass, Zero) THEN RNeg(mass)
                  ELSE IF mass = Zero THEN One ELSE mass,
                  RLt(mass, Zero))
        Selected(sys) ==
            IF selectNew THEN selectObject(sys, which, TRUE, FALSE) ELSE sys
    IN  [sys |-> Selected(Read(createMass(ld.sys), Parse(args[6]))),
         mapfrom |-> Append(ld.mapfrom, ParseInt(args[1])),
         mapto |-> Append(ld.mapto, which)]

\* fileLoad, a "spng" line: bogus m1 m2 ks kd restlen
ReadSpring(ld, args, selectNew) ==
    LET which == springCount(ld.sys)
        Read(sys) ==
            [sys EXCEPT !.springs_[which] =
                [@ EXCEPT !.m1 = ParseInt(args[2]), !.m2 = ParseInt(args[3]),
                          !.ks = Parse(args[4]), !.kd = Parse(args[5]),
                          !.restlen = Parse(args[6])]]
        Selected(sys) ==
            IF selectNew THEN selectObject(sys, which, FALSE, FALSE) ELSE sys
    IN  [ld EXCEPT !.sys = Selected(Read(createSpring(@)))]

\* fileLoad, the commands that set the State
ReadState(state, cmd, args) ==
    LET On(i) == ParseInt(args[i]) # 0
        Force(which) ==
            IF which >= 0 /\ which < BF_NUM
            THEN [state EXCEPT !.force_enabled[which] = On(2),
                               !.cur_grav_val[which] = Parse(args[3]),
                               !.cur_misc_val[which] = Parse(args[4])]
            ELSE IF which = BF_NUM THEN [state EXCEPT !.collide = On(2)]
            ELSE state
    IN  CASE cmd = "cmas" -> [state EXCEPT !.cur_mass = Parse(args[1])]
          [] cmd = "elas" -> [state EXCEPT !.cur_rest = Parse(args[1])]
          [] cmd = "kspr" -> [state EXCEPT !.cur_ks = Parse(args[1])]
          [] cmd = "kdmp" -> [state EXCEPT !.cur_kd = Parse(args[1])]
          [] cmd = "fixm" -> [state EXCEPT !.fix_mass = On(1)]
          [] cmd = "shws" -> [state EXCEPT !.show_spring = On(1)]
          [] cmd = "cent" -> [state EXCEPT !.center_id = ParseInt(args[1])]
          [] cmd = "frce" -> Force(ParseInt(args[1]))
          [] cmd = "visc" -> [state EXCEPT !.cur_visc = Parse(args[1])]
          [] cmd = "stck" -> [state EXCEPT !.cur_stick = Parse(args[1])]
          [] cmd = "step" -> [state EXCEPT !.cur_dt = Parse(args[1])]
          [] cmd = "prec" -> [state EXCEPT !.cur_prec = Parse(args[1])]
          [] cmd = "adpt" -> [state EXCEPT !.adaptive_step = On(1)]
          [] cmd = "gsnp" -> [state EXCEPT !.cur_gsnap = Parse(args[1]),
                                           !.grid_snap = On(2)]
          [] cmd = "wall" -> [state EXCEPT !.w_top = On(1), !.w_left = On(2),
                                           !.w_right = On(3), !.w_bottom = On(4)]
          [] OTHER -> state

\* fileLoad, the loop over the lines; ld is [sys, mapfrom, mapto]
RECURSIVE ReadLines(_, _, _, _)
ReadLines(ld, lines, command, selectNew) ==
    LET Read(line) ==
            IF line.cmd = "mass" THEN ReadMass(ld, line.args, selectNew)
            ELSE IF line.cmd = "spng" THEN ReadSpring(ld, line.args, selectNew)
            ELSE IF command = "FileInsert" THEN ld
            ELSE [ld EXCEPT !.sys.state_ = ReadState(@, line.cmd, line.args)]
    IN  IF lines = <<>> THEN ld
        ELSE ReadLines(Read(Head(lines)), Tail(lines), command, selectNew)

\* The first j from j on with mapfrom[j] = m, 0 when there is none
RECURSIVE FirstMatch(_, _, _)
FirstMatch(mapfrom, m, j) ==
    IF j > Len(mapfrom) THEN 0
    ELSE IF mapfrom[j] = m THEN j
    ELSE FirstMatch(mapfrom, m, j + 1)

\* fileLoad, "Connect springs to masses", the springs from i on: each end takes
\* the new index of the first mass line with its number (j1, j2), and the spring
\* is deleted if neither end has one
RECURSIVE ConnectSprings(_, _)
ConnectSprings(ld, i) ==
    LET Mapped(j1, j2) ==
            IF j1 = 0 /\ j2 = 0 THEN deleteSpring(ld.sys, i)
            ELSE [ld.sys EXCEPT
                     !.springs_[i].m1 = IF j1 # 0 THEN ld.mapto[j1] ELSE @,
                     !.springs_[i].m2 = IF j2 # 0 THEN ld.mapto[j2] ELSE @]
        Connected(spring) ==
            IF isFakeSpring(ld.sys, i) THEN ld.sys
            ELSE Mapped(FirstMatch(ld.mapfrom, spring.m1, 1),
                        FirstMatch(ld.mapfrom, spring.m2, 1))
    IN  IF i >= springCount(ld.sys) THEN ld.sys
        ELSE ConnectSprings([ld EXCEPT !.sys = Connected(ld.sys.springs_[i])], i + 1)

\* A spring end outside masses_: deleteSpring and reconnectMasses index the
\* vector with it, which is undefined behaviour
Wild(sys) ==
    \E i \in DOMAIN sys.springs_ :
        \/ sys.springs_[i].m1 \notin DOMAIN sys.masses_
        \/ sys.springs_[i].m2 \notin DOMAIN sys.masses_

\* fileLoad(fileName, command, system): [ok, sys, wild]
fileLoad(file, command, sys) ==
    LET Loaded(start, selectNew) ==
            ConnectSprings(ReadLines([sys |-> start, mapfrom |-> <<>>, mapto |-> <<>>],
                                     Tail(file), command, selectNew),
                           springCount(start))
        Done(connected) ==
            [ok |-> TRUE, sys |-> reconnectMasses(connected), wild |-> Wild(connected)]
    IN  IF file = <<>> \/ Head(file).cmd # MAGIC_CMD
        THEN [ok |-> FALSE, sys |-> sys, wild |-> FALSE]
        ELSE IF command = "FileLoad" THEN Done(Loaded(reset(sys), FALSE))
        ELSE Done(Loaded(sys, ~anythingSelected(sys)))

---------------------------------------------------------------------------
(* The entity store's operations, as their callers invoke them.            *)

Masses == DOMAIN system_.masses_
Springs == DOMAIN system_.springs_
AliveMasses == {i \in Masses : isAlive(system_.masses_[i])}
AliveSprings == {i \in Springs : isAlive(system_.springs_[i])}
SelectedMasses == {i \in Masses : isSelected(system_.masses_[i])}
SelectedSprings == {i \in Springs : isSelected(system_.springs_[i])}

\* An operation other than the simulation step: the timer's tick is not running,
\* the stepper's variables and the file stay as they are
Edited(op) ==
    /\ pc = "idle"
    /\ last' = op
    /\ UNCHANGED <<physics_, pc, file_, savedSystem_, canvas_>>

\* Inputs of the editing operations
Coordinates == {R(20)}
MouseCoordinates == {20}
RestLengths == {R(3)}

\* Canvas::mouseReleaseEvent, ModeMass: a new mass at (x, y) with the current
\* parameters, selected
MouseReleaseMass(x, y, shiftKeyDown) ==
    /\ LET which == massCount(system_)
           st == system_.state_
           s1 == createMass(system_)
           m0 == [s1.masses_[which] EXCEPT
                     !.x = x, !.y = y, !.mass = st.cur_mass,
                     !.radius = massRadius(st.cur_mass), !.elastic = st.cur_rest]
           m1 == IF st.fix_mass THEN setFixed(m0, TRUE) ELSE m0
           s2 == IF shiftKeyDown THEN s1 ELSE unselectAll(s1)
       IN  system_' = [s2 EXCEPT !.masses_[which] = setSelected(m1, TRUE)]
    /\ Edited("createMass")

\* Canvas::mouseReleaseEvent, ModeSpring: a new spring from startSel to selection,
\* both found by nearestObject (ALIVE masses), selected
MouseReleaseSpring(startSel, selection, restlen, shiftKeyDown) ==
    /\ startSel \in AliveMasses /\ selection \in AliveMasses
    /\ selection # startSel
    /\ LET newsel == springCount(system_)
           st == system_.state_
           s1 == createSpring(system_)
           sp == [s1.springs_[newsel] EXCEPT
                     !.m1 = startSel, !.m2 = selection,
                     !.ks = st.cur_ks, !.kd = st.cur_kd, !.restlen = restlen]
           s2 == addMassParent(addMassParent([s1 EXCEPT !.springs_[newsel] = sp],
                                             startSel, newsel), selection, newsel)
           s3 == IF shiftKeyDown THEN s2 ELSE unselectAll(s2)
       IN  system_' = [s3 EXCEPT !.springs_[newsel] = setSelected(@, TRUE)]
    /\ Edited("createSpring")

\* System::deleteMass(which), as deleteSelected and Physics::advance call it
DeleteMass(which) ==
    /\ which \in AliveMasses
    /\ system_' = deleteMass(system_, which)
    /\ Edited("deleteMass")

\* System::deleteSpring(which)
DeleteSpring(which) ==
    /\ which \in AliveSprings
    /\ system_' = deleteSpring(system_, which)
    /\ Edited("deleteSpring")

\* MainWindow::editDelete
EditDelete ==
    /\ SelectedMasses \cup SelectedSprings # {}
    /\ system_' = deleteSelected(system_)
    /\ Edited("deleteSelected")

\* MainWindow::editDuplicate
EditDuplicate ==
    /\ SelectedMasses \cup SelectedSprings # {}
    /\ system_' = duplicateSelected(system_)
    /\ Edited("duplicateSelected")

\* Canvas::mouseReleaseEvent, ModeEdit, on what nearestObject returned (an ALIVE
\* entity): selectObject, then evalSelection
SelectObject(selection, is_mass, shifted) ==
    /\ selection \in (IF is_mass THEN AliveMasses ELSE AliveSprings)
    /\ system_' = evalSelection(selectObject(system_, selection, is_mass, shifted)).sys
    /\ system_' # system_
    /\ Edited("selectObject")

\* MainWindow::setCenter
SetCenter ==
    /\ system_' = setCenter(system_)
    /\ system_' # system_
    /\ Edited("setCenter")

\* MainWindow::editSelectAll: selectAll, then evalSelection
SelectAll ==
    /\ system_' = evalSelection(selectAll(system_)).sys
    /\ system_' # system_
    /\ Edited("selectAll")

\* Canvas::mousePressEvent, ModeEdit, without the shift key: unselectAll
UnselectAll ==
    /\ system_' = unselectAll(system_)
    /\ system_' # system_
    /\ Edited("unselectAll")

\* Canvas::mousePressEvent, ModeEdit, left button, at (x, y) in the coordinates
\* of the system: nearestObject over masses and springs, and unselectAll without
\* the shift key
EditPress(x, y, shiftKeyDown) ==
    /\ pc = "idle"
    /\ ~canvas_.mouseDown_
    /\ canvas_' = [canvas_ EXCEPT
                      !.mouseDown_ = TRUE,
                      !.startPoint_ = <<x, y>>,
                      !.shiftKeyDown_ = shiftKeyDown,
                      !.mouseButton_ = "LeftButton",
                      !.selection_ = nearestObject(system_, x, y, FALSE).closest]
    /\ system_' = IF shiftKeyDown THEN system_ ELSE unselectAll(system_)
    /\ last' = "mousePressEdit"
    /\ UNCHANGED <<physics_, pc, file_, savedSystem_>>

\* Canvas::mouseReleaseEvent, ModeEdit, left button, at (x, y): the box from the
\* press to the release if the press found nothing, else what nearestObject finds
\* at the release; then evalSelection
EditRelease(x, y) ==
    /\ pc = "idle"
    /\ canvas_.mouseDown_
    /\ LET Low(a, b) == IF a < b THEN a ELSE b
           High(a, b) == IF a < b THEN b ELSE a
           start == canvas_.startPoint_
           found == nearestObject(system_, x, y, FALSE)
       IN  IF canvas_.selection_ < 0
           THEN /\ system_' = evalSelection(
                                  selectObjects(system_, Low(start[1], x), Low(start[2], y),
                                                High(start[1], x), High(start[2], y))).sys
                /\ canvas_' = [canvas_ EXCEPT !.mouseDown_ = FALSE]
           ELSE /\ system_' = IF found.closest >= 0
                              THEN evalSelection(selectObject(system_, found.closest,
                                                              found.is_mass,
                                                              canvas_.shiftKeyDown_)).sys
                              ELSE system_
                /\ canvas_' = [canvas_ EXCEPT !.mouseDown_ = FALSE,
                                               !.selection_ = found.closest]
    /\ last' = "mouseReleaseEdit"
    /\ UNCHANGED <<physics_, pc, file_, savedSystem_>>

\* Canvas::mousePressEvent, ModeSpring, at (x, y) in the coordinates of the
\* system: the mass nearestObject finds is remembered in selection_; with the
\* simulation running and the left button the preview spring is attached to it
SpringPress(x, y, button, shiftKeyDown) ==
    /\ pc = "idle"
    /\ ~canvas_.mouseDown_
    /\ LET static == ~canvas_.action_ \/ button = "RightButton"
           found == nearestObject(system_, x, y, TRUE)
           hit == found.closest >= 0 /\ found.is_mass
       IN  /\ canvas_' = [canvas_ EXCEPT
                             !.shiftKeyDown_ = shiftKeyDown,
                             !.mouseButton_ = button,
                             !.mouseDown_ = hit,
                             !.staticSpring_ = static,
                             !.selection_ = found.closest]
           /\ system_' = IF hit /\ ~static
                         THEN moveFakeMass(attachFakeSpring(system_, found.closest), x, y)
                         ELSE system_
    /\ last' = "mousePressSpring"
    /\ UNCHANGED <<physics_, pc, file_, savedSystem_>>

\* Canvas::mouseReleaseEvent, ModeSpring, at (x, y): a spring from the mass
\* remembered at the press (startSel) to the mass nearestObject finds now, of
\* the length `restlen` between their places on the screen.  getMass(startSel)
\* and addMassParent(startSel, newsel) with startSel past the end of masses_ are
\* undefined: the program ends, or it goes on with the spring as it was set
SpringRelease(x, y, restlen) ==
    /\ pc = "idle"
    /\ canvas_.mouseDown_
    /\ LET startSel == canvas_.selection_
           st == system_.state_
           s0 == IF ~canvas_.staticSpring_ THEN killFakeSpring(system_) ELSE system_
           found == nearestObject(s0, x, y, TRUE)
           creates ==
               /\ \/ canvas_.staticSpring_
                  \/ ~canvas_.action_
                  \/ canvas_.mouseButton_ = "RightButton"
               /\ found.closest >= 0 /\ found.is_mass
               /\ found.closest # startSel
           newsel == springCount(s0)
           s1 == createSpring(s0)
           sp == [s1.springs_[newsel] EXCEPT
                     !.m1 = startSel, !.m2 = found.closest,
                     !.ks = st.cur_ks, !.kd = st.cur_kd, !.restlen = restlen]
           s2 == addMassParent(addMassParent([s1 EXCEPT !.springs_[newsel] = sp],
                                             startSel, newsel), found.closest, newsel)
           s3 == IF canvas_.shiftKeyDown_ THEN s2 ELSE unselectAll(s2)
       IN  /\ canvas_' = [canvas_ EXCEPT !.mouseDown_ = FALSE,
                                          !.selection_ = found.closest]
           /\ system_' = IF creates
                         THEN [s3 EXCEPT !.springs_[newsel] = setSelected(@, TRUE)]
                         ELSE s0
           /\ pc' \in (IF creates /\ startSel \notin DOMAIN s0.masses_
                       THEN {"idle", "crashed"} ELSE {"idle"})
    /\ last' = "mouseReleaseSpring"
    /\ UNCHANGED <<physics_, file_, savedSystem_>>

\* MainWindow::start: the timer and the canvas's action_ are switched together
start ==
    /\ pc = "idle"
    /\ canvas_' = [canvas_ EXCEPT !.action_ = ~@]
    /\ last' = "start"
    /\ UNCHANGED <<system_, physics_, pc, file_, savedSystem_>>

\* spring is attached to the mass nearestObject returned, and the fake mass is
\* moved to the mouse, which is on that mass
AttachFakeSpring(tomass, mx, my) ==
    /\ tomass \in AliveMasses
    /\ system_.masses_[tomass].x = R(mx)
    /\ system_.masses_[tomass].y = R(my)
    /\ ~isAlive(system_.springs_[system_.fakeSpring_])
    /\ system_' = moveFakeMass(attachFakeSpring(system_, tomass), mx, my)
    /\ Edited("attachFakeSpring")

\* Canvas::mouseReleaseEvent, ModeSpring: if (!staticSpring_) killFakeSpring()
KillFakeSpring ==
    /\ isAlive(system_.springs_[system_.fakeSpring_])
    /\ system_' = killFakeSpring(system_)
    /\ Edited("killFakeSpring")

\* MainWindow::timeStepValueChanged, precisionValueChanged, stickinessValueChanged
TimeStepValueChanged(value) ==
    /\ system_' = [system_ EXCEPT !.state_.cur_dt = value]
    /\ system_' # system_
    /\ Edited("timeStepValueChanged")

PrecisionValueChanged(value) ==
    /\ system_' = [system_ EXCEPT !.state_.cur_prec = value]
    /\ system_' # system_
    /\ Edited("precisionValueChanged")

\* MainWindow::stickinessValueChanged
StickinessValueChanged(value) ==
    /\ system_' = [system_ EXCEPT !.state_.cur_stick = value]
    /\ system_' # system_
    /\ Edited("stickinessValueChanged")

\* MainWindow::southChanged, eastChanged, collideChanged
SouthChanged ==
    /\ system_' = [system_ EXCEPT !.state_.w_bottom = ~@]
    /\ Edited("southChanged")

EastChanged ==
    /\ system_' = [system_ EXCEPT !.state_.w_left = ~@]
    /\ Edited("eastChanged")

CollideChanged ==
    /\ system_' = [system_ EXCEPT !.state_.collide = ~@]
    /\ Edited("collideChanged")

\* MainWindow::adaptiveTimeStepChanged
AdaptiveTimeStepChanged ==
    /\ system_' = [system_ EXCEPT !.state_.adaptive_step = ~@]
    /\ Edited("adaptiveTimeStepChanged")

\* History: `quiet` counts the calls of advance() that have returned false since
\* the last one that returned true
Returned(ph) == [ph EXCEPT !.quiet = IF ph.redraw THEN 0 ELSE @ + 1]

\* The end of advance(): the frame pacer, and the state it leaves
Finish(done, ph) ==
    /\ system_' = done
    /\ pc' = "idle"
    /\ physics_' = Returned(FramePacer(ph, done.state_.cur_dt))
    /\ last' = "advance"

\* advance() from the saved old values on: it enters adaptiveRungeKutta
\* (pc = "restart"), or takes the fixed step and finishes
Started(old, ph) ==
    IF old.state_.adaptive_step /\ anySpring(old)
    THEN /\ system_' = old
         /\ pc' = "restart"
         /\ physics_' = ph
         /\ last' = "adaptiveRungeKutta"
    ELSE Finish(Contacts(FixedStep(old, ph.width_, ph.height_),
                         ph.width_, ph.height_), ph)

\* MainWindow::tick: a Physics on the canvas, and advance() up to the integrator
TickBegin ==
    /\ pc = "idle"
    /\ Started(SaveOld(system_), [physics_ EXCEPT !.ticks = @ + 1])
    /\ UNCHANGED <<file_, savedSystem_, canvas_>>

\* The end of a pass: rejected (goto restart), or accepted, and then the rest
\* of advance()
Passed(pass) ==
    IF pass.again
    THEN /\ system_' = pass.sys
         /\ pc' = "restart"
         /\ last' = "restart"
         /\ UNCHANGED physics_
    ELSE Finish(Contacts(pass.sys, physics_.width_, physics_.height_), physics_)

\* One pass of adaptiveRungeKutta's restart loop
AdaptiveStep ==
    /\ pc = "restart"
    /\ Passed(AdaptivePass(system_, physics_.width_, physics_.height_))
    /\ UNCHANGED <<file_, savedSystem_, canvas_>>

\* MainWindow::fileSave: the scene written to the current file
FileSave ==
    /\ pc = "idle"
    /\ file_' = fileSave(system_)
    /\ last' = "fileSave"
    /\ UNCHANGED <<system_, physics_, pc, savedSystem_, canvas_>>

\* The end of fileOpen and fileInsert: a file that is not a scene file leaves
\* everything as it is; a load that indexed masses_ outside its bounds has
\* undefined behaviour, it ends the program or goes unnoticed
Loaded(load, op) ==
    /\ system_' = load.sys
    /\ pc' \in (IF load.wild THEN {"idle", "crashed"} ELSE {"idle"})
    /\ last' = IF load.ok THEN op ELSE last
    /\ UNCHANGED <<physics_, file_, savedSystem_, canvas_>>

\* MainWindow::fileOpen on the scene file `file`
FileOpen(file) ==
    /\ pc = "idle"
    /\ Loaded(fileLoad(file, "FileLoad", system_), "fileLoad")

\* MainWindow::fileInsert on the scene file `file`
FileInsert(file) ==
    /\ pc = "idle"
    /\ Loaded(fileLoad(file, "FileInsert", system_), "fileInsert")

\* A copy that leaves the entities behind
CopyStateOnly(sys) == [NewSystem EXCEPT !.state_ = sys.state_]

\* System's copy assignment, member by member: the vectors are copied by value
CopySystem(sys) ==
    [state_ |-> sys.state_, masses_ |-> sys.masses_, springs_ |-> sys.springs_,
     fakeMass_ |-> sys.fakeMass_, fakeSpring_ |-> sys.fakeSpring_]

\* MainWindow::stateSave: savedSystem_ = system_
StateSave ==
    /\ pc = "idle"
    /\ savedSystem_' = CopySystem(system_)
    /\ last' = "stateSave"
    /\ UNCHANGED <<system_, physics_, pc, file_, canvas_>>

\* MainWindow::stateRestore: system_ = savedSystem_
StateRestore ==
    /\ system_' = CopySystem(savedSystem_)
    /\ Edited("stateRestore")

\* MainWindow::stateReset: system_.reset()
stateReset ==
    /\ system_' = reset(system_)
    /\ system_' # system_
    /\ Edited("stateReset")

\* Physics::Physics(system_, width, height) and the statics of advance()
NewPhysics(width, height) ==
    [width_ |-> width, height_ |-> height, num_since |-> 0, time_elapsed |-> Zero,
     redraw |-> FALSE, ticks |-> 0, quiet |-> 0]

CanvasWidth == 400
CanvasHeight == 300

\* Canvas::Canvas: mouseDown_(false), staticSpring_(false), action_(false),
\* selection_(-1), shiftKeyDown_(false), mouseButton_(Qt::NoButton);
\* startPoint_ is a default QPoint
NewCanvas ==
    [mouseDown_ |-> FALSE, staticSpring_ |-> FALSE, action_ |-> FALSE,
     selection_ |-> -1, shiftKeyDown_ |-> FALSE, mouseButton_ |-> "NoButton",
     startPoint_ |-> <<0, 0>>]

Init ==
    /\ system_ = NewSystem
    /\ physics_ = NewPhysics(CanvasWidth, CanvasHeight)
    /\ pc = "idle"
    /\ file_ = <<>>
    /\ savedSystem_ = NewSystem
    /\ canvas_ = NewCanvas
    /\ last = "init"

\* The store stays within the bounds: vectors of at most maxM masses and maxS springs
RoomFor(newMasses, newSprings, maxM, maxS) ==
    /\ massCount(system_) + newMasses <= maxM
    /\ springCount(system_) + newSprings <= maxS

Create(maxM, maxS) ==
    \/ /\ RoomFor(1, 0, maxM, maxS)
       /\ \E x \in Coordinates, y \in Coordinates : MouseReleaseMass(x, y, FALSE)
    \/ /\ RoomFor(0, 1, maxM, maxS)
       /\ \E a \in Masses, b \in Masses, len \in RestLengths :
              MouseReleaseSpring(a, b, len, FALSE)

Select ==
    \/ \E i \in Masses, shifted \in BOOLEAN : SelectObject(i, TRUE, shifted)
    \/ \E i \in Springs, shifted \in BOOLEAN : SelectObject(i, FALSE, shifted)
    \/ SelectAll
    \/ UnselectAll

Duplicate(maxM, maxS) ==
    /\ RoomFor(Cardinality(SelectedMasses), Cardinality(SelectedSprings), maxM, maxS)
    /\ EditDuplicate

FakeSpring ==
    \/ /\ Len(system_.masses_[system_.fakeMass_].parents) < MaxFakeParents
       /\ \E i \in Masses, mx \in MouseCoordinates, my \in MouseCoordinates :
              AttachFakeSpring(i, mx, my)
    \/ KillFakeSpring

Next ==
    \/ Create(MaxMasses, MaxSprings)
    \/ \E i \in Masses : DeleteMass(i)
    \/ \E i \in Springs : DeleteSpring(i)
    \/ EditDelete
    \/ Duplicate(MaxMasses, MaxSprings)
    \/ Select
    \/ FakeSpring

Spec == Init /\ [][Next]_vars

\* Editing without the preview spring, on a larger store
NextDup ==
    \/ Create(MaxDupMasses, MaxDupSprings)
    \/ EditDelete
    \/ Duplicate(MaxDupMasses, MaxDupSprings)
    \/ Select

SpecDup == Init /\ [][NextDup]_vars

\* The adaptive stepper on a scene at rest: the precision and the time step are
\* the user's, the stepper grows and shrinks cur_dt
PrecisionValues == {One, Rat(1, 100000), Rat(1, 25600000), Zero}
TimeStepValues == {One, Rat(1, 20000)}

\* A scene file written by hand: two masses in one place, a spring between them,
\* adaptive stepping and the precision `prec`.  fileLoad reads cur_prec as
\* QTextStream parses it and stores it unchecked: a negative number, or "nan"
AdaptiveScene(prec) ==
    <<Line(MAGIC_CMD, <<>>),
      Line("prec", <<Format(prec)>>),
      Line("adpt", <<FormatInt(1)>>),
      Line("mass", <<FormatInt(1), Format(R(20)), Format(R(20)), Format(Zero),
                     Format(Zero), Format(One), Format(One)>>),
      Line("mass", <<FormatInt(2), Format(R(20)), Format(R(20)), Format(Zero),
                     Format(Zero), Format(One), Format(One)>>),
      Line("spng", <<FormatInt(1), FormatInt(1), FormatInt(2), Format(One),
                     Format(One), Format(R(3))>>)>>
\* A scene file written by hand: the two masses of AdaptiveScene and a third one,
\* tied to no spring, whose velocity reads "inf" (QTextStream parses it, fileLoad
\* stores it unchecked): every stage of a pass places it at infinity.  The
\* precision 0 rejects the first pass
DriftScene ==
    <<Line(MAGIC_CMD, <<>>),
      Line("prec", <<Format(Zero)>>),
      Line("adpt", <<FormatInt(1)>>),
      Line("mass", <<FormatInt(1), Format(R(20)), Format(R(20)), Format(Zero),
                     Format(Zero), Format(One), Format(One)>>),
      Line("mass", <<FormatInt(2), Format(R(20)), Format(R(20)), Format(Zero),
                     Format(Zero), Format(One), Format(One)>>),
      Line("mass", <<FormatInt(3), Format(R(20)), Format(R(20)), Format(Inf),
                     Format(Zero), Format(One), Format(One)>>),
      Line("spng", <<FormatInt(1), FormatInt(1), FormatInt(2), Format(One),
                     Format(One), Format(R(3))>>)>>
AdaptiveScenes == {AdaptiveScene(R(-1)), AdaptiveScene(NaN), DriftScene}

Tick(maxTicks) ==
    \/ physics_.ticks < maxTicks /\ TickBegin
    \/ AdaptiveStep

Settings ==
    \/ AdaptiveTimeStepChanged
    \/ \E v \in PrecisionValues : PrecisionValueChanged(v)
    \/ \E v \in TimeStepValues : TimeStepValueChanged(v)

NextAdaptive ==
    \/ Create(MaxAdaptiveMasses, MaxAdaptiveSprings)
    \/ \E file \in AdaptiveScenes : FileOpen(file)
    \/ Settings
    \/ Tick(MaxAdaptiveTicks)

SpecAdaptive == Init /\ [][NextAdaptive]_vars

\* advance() runs to its end once called: a pass of the restart loop that can run
\* does run.  This is WF_vars(AdaptiveStep) with ENABLED <<AdaptiveStep>>_vars
\* written out as pc = "restart"
SpecAdaptiveFair ==
    SpecAdaptive /\ ([]<>(pc # "restart") \/ []<><<AdaptiveStep>>_vars)

\* Scene files written by hand.  A "mass" line and a "spng" line
MassLine(num, x, y, vx, vy, mass, elastic) ==
    Line("mass", <<FormatInt(num), Format(x), Format(y), Format(vx), Format(vy),
                   Format(mass), Format(elastic)>>)
SpringLine(num, m1, m2, ks, kd, restlen) ==
    Line("spng", <<FormatInt(num), FormatInt(m1), FormatInt(m2), Format(ks),
                   Format(kd), Format(restlen)>>)

\* Two masses at rest, three apart, and a damped spring of rest length three
\* between them
RestScene(adaptive) ==
    <<Line(MAGIC_CMD, <<>>),
      Line("adpt", <<FormatInt(Flag(adaptive))>>),
      MassLine(1, R(100), R(100), Zero, Zero, One, One),
      MassLine(2, R(103), R(100), Zero, Zero, One, One),
      SpringLine(1, 1, 2, One, One, R(3))>>

\* The same with the first mass fixed, a velocity on the fixed mass, and a time
\* step of one
StaleScene ==
    <<Line(MAGIC_CMD, <<>>),
      Line("step", <<Format(One)>>),
      MassLine(1, R(100), R(100), R(3), Zero, R(-1), One),
      MassLine(2, R(103), R(100), Zero, Zero, One, One),
      SpringLine(1, 1, 2, One, One, R(3))>>

\* A mass of screen radius 15 at rest on the left wall, stickiness 1, and gravity
\* `grav` pointing to the right
WallScene(grav) ==
    <<Line(MAGIC_CMD, <<>>),
      Line("frce", <<FormatInt(FR_GRAV), FormatInt(1), Format(grav), Format(R(90))>>),
      Line("stck", <<Format(One)>>),
      MassLine(1, R(15), R(150), Zero, Zero, One, One)>>

\* A mass of screen radius 15 one unit off the left wall, moving into it at 80 a
\* second, of elasticity `elastic`: fileLoad stores the elasticity as QTextStream
\* parses it, "nan" included
BounceScene(elastic) ==
    <<Line(MAGIC_CMD, <<>>),
      MassLine(1, R(16), R(150), R(-80), Zero, One, elastic)>>

PhysScenes ==
    {RestScene(FALSE), RestScene(TRUE), StaleScene,
     WallScene(Rat(1, 2)), WallScene(R(10)), BounceScene(NaN), BounceScene(One)}
StickinessValues == {Zero, One}

\* The simulation of a loaded scene, with the walls, the collisions and the
\* stickiness as the user sets them
NextPhys ==
    \/ \E file \in PhysScenes : FileOpen(file)
    \/ \E v \in StickinessValues : StickinessValueChanged(v)
    \/ SouthChanged
    \/ EastChanged
    \/ CollideChanged
    \/ Tick(MaxPhysTicks)

SpecPhys == Init /\ [][NextPhys]_vars

\* Two masses `mass` heavy and `elastic` elastic, the second `d` away from the
\* first, the first moving at `s` times d and the second at `-t` times d, and the
\* collisions on
CollideScene(d, s, t, mass, elastic) ==
    <<Line(MAGIC_CMD, <<>>),
      Line("frce", <<FormatInt(BF_NUM), FormatInt(1), FormatInt(0), FormatInt(0)>>),
      MassLine(1, R(100), R(100), R(s * d[1]), R(s * d[2]), mass, elastic),
      MassLine(2, R(100 + d[1]), R(100 + d[2]), R(-t * d[1]), R(-t * d[2]),
               mass, elastic)>>

\* Two equal masses and the collisions on: the step takes the first to (101, 99),
\* where it overlaps the second, which stands at (102, 103); it moves towards the
\* second in x and away from it in y, and away from it along the line of centers
GlanceScene ==
    <<Line(MAGIC_CMD, <<>>),
      Line("frce", <<FormatInt(BF_NUM), FormatInt(1), FormatInt(0), FormatInt(0)>>),
      MassLine(1, R(100), R(100), R(40), R(-40), One, One),
      MassLine(2, R(102), R(103), Zero, Zero, One, One)>>

Directions == {<<2, 0>>, <<0, 2>>, <<1, 1>>}
Speeds == {0, 1, 2}
MassValues == {One, R(2)}
Elasticities == {One, Rat(1, 2)}

\* The simulation of two masses that meet
NextCollide ==
    \/ \E d \in Directions, s \in Speeds, t \in Speeds,
          mass \in MassValues, elastic \in Elasticities :
           FileOpen(CollideScene(d, s, t, mass, elastic))
    \/ FileOpen(GlanceScene)
    \/ CollideChanged
    \/ physics_.ticks < MaxCollideTicks /\ TickBegin

SpecCollide == Init /\ [][NextCollide]_vars

\* A mass that moves and a fixed one, a spring between them, and a third mass
PairScene ==
    <<Line(MAGIC_CMD, <<>>),
      MassLine(1, Rat(81, 4), R(30), Rat(-3, 2), Zero, One, Rat(1, 2)),
      MassLine(2, R(23), R(26), Zero, Zero, R(-2), One),
      SpringLine(1, 1, 2, R(2), Rat(1, 2), R(5))>>

\* Mass and spring numbers that are not their places in the file
SparseScene ==
    <<Line(MAGIC_CMD, <<>>),
      MassLine(7, R(40), R(50), One, R(-1), R(3), Zero),
      MassLine(4, R(43), R(54), Zero, Rat(1, 8), One, One),
      SpringLine(9, 4, 7, One, Zero, R(5))>>

FileScenes == {PairScene, SparseScene}

\* MainWindow::fileOpen on the file that fileSave wrote last
FileReopen ==
    /\ file_ # <<>>
    /\ FileOpen(file_)

\* MainWindow::fileSaveAs: the scene is saved once, to a new file
FileSaveAs ==
    /\ file_ = <<>>
    /\ FileSave

\* The editing of a scene that has not been saved yet
EditUnsaved ==
    /\ file_ = <<>>
    /\ \/ \E file \in FileScenes : FileOpen(file)
       \/ Select
       \/ Duplicate(MaxFileMasses, MaxFileSprings)
       \/ EditDelete

\* A scene file written by hand: one mass, and a spring whose second end names
\* a mass the file does not hold; fileLoad leaves that end as it is written
HalfScene ==
    <<Line(MAGIC_CMD, <<>>),
      MassLine(7, R(40), R(50), Zero, Zero, One, One),
      SpringLine(1, 7, 1, One, Zero, R(5))>>

\* Scenes inserted into a store that has been edited: the parent lists of the
\* whole store are rebuilt at the end of every insertion
NextReconnect ==
    \/ Create(MaxReconnectMasses, MaxReconnectSprings)
    \/ \E i \in Springs : DeleteSpring(i)
    \/ FakeSpring
    \/ RoomFor(2, 1, MaxReconnectMasses, MaxReconnectSprings) /\ FileInsert(PairScene)
    \/ RoomFor(1, 1, MaxReconnectMasses, MaxReconnectSprings) /\ FileInsert(HalfScene)

SpecReconnect == Init /\ [][NextReconnect]_vars

\* A scene file written by hand: three masses, the first and the third FIXED (a
\* negative mass) and as heavy as each other, and two springs that differ in
\* their damping only
SelectScene ==
    <<Line(MAGIC_CMD, <<>>),
      MassLine(1, R(100), R(100), Zero, Zero, R(-2), One),
      MassLine(2, R(110), R(100), Zero, Zero, One, Rat(1, 2)),
      MassLine(3, R(120), R(100), Zero, Zero, R(-2), One),
      SpringLine(1, 1, 2, R(2), One, R(10)),
      SpringLine(2, 2, 3, R(2), R(3), R(10))>>

\* Selecting in a loaded scene
NextSelect ==
    \/ \E file \in {SelectScene, PairScene} : FileOpen(file)
    \/ Select

SpecSelect == Init /\ [][NextSelect]_vars

\* Scene files written by hand: a heavy mass of screen radius 20 at (110, 100)
\* tied to a light one at (110, 160), and a light mass of screen radius 15 at
\* (100, 105), the heavy mass before the light one in the file or after it
NearScene(heavyFirst) ==
    LET heavy == <<R(110), R(100), R(14)>>
        light == <<R(100), R(105), One>>
        first == IF heavyFirst THEN heavy ELSE light
        second == IF heavyFirst THEN light ELSE heavy
    IN  <<Line(MAGIC_CMD, <<>>),
          MassLine(1, first[1], first[2], Zero, Zero, first[3], One),
          MassLine(2, second[1], second[2], Zero, Zero, second[3], One),
          MassLine(3, R(110), R(160), Zero, Zero, One, One),
          SpringLine(1, IF heavyFirst THEN 1 ELSE 2, 3, One, One, R(60))>>

\* Where the mouse is pressed and released: between the two near masses, next
\* to the spring, on the far mass, and on nothing
ClickPoints == {<<100, 100>>, <<105, 130>>, <<110, 160>>, <<300, 200>>}

\* Clicks and rubber bands in edit mode on a loaded scene
NextNearest ==
    \/ \E heavyFirst \in BOOLEAN : FileOpen(NearScene(heavyFirst))
    \/ \E p \in ClickPoints, shiftKeyDown \in BOOLEAN : EditPress(p[1], p[2], shiftKeyDown)
    \/ \E p \in ClickPoints : EditRelease(p[1], p[2])

SpecNearest == Init /\ [][NextNearest]_vars

\* A mass at rest and one that leaves the canvas at once: its velocity is not
\* finite, advance() deletes it as exploded
ExplodeScene ==
    <<Line(MAGIC_CMD, <<>>),
      MassLine(1, R(40), R(50), Zero, Zero, One, One),
      MassLine(2, R(60), R(50), Inf, Zero, One, One)>>

\* Physics::accumulateAccel, system_.getMass(mst.center_id) with center_id past
\* the end of masses_: the read is undefined.  It ends the program, or it finds
\* a status word without ALIVE, and then center_id is reset and the step goes on
WildCenter(sys) == sys.state_.center_id >= massCount(sys)

\* MainWindow::tick
TickCenter ==
    \/ ~WildCenter(system_) /\ physics_.ticks < MaxCenterTicks /\ TickBegin
    \/ /\ pc = "idle"
       /\ WildCenter(system_)
       /\ physics_.ticks < MaxCenterTicks
       /\ \/ /\ pc' = "crashed"
             /\ last' = "advance"
             /\ UNCHANGED <<system_, physics_>>
          \/ Started(SaveOld([system_ EXCEPT !.state_.center_id = -1]),
                     [physics_ EXCEPT !.ticks = @ + 1])
       /\ UNCHANGED <<file_, savedSystem_, canvas_>>

\* The center mass chosen among the masses of a loaded scene, with every way
\* the scene is deleted from, stepped, saved and brought back
NextCenter ==
    \/ FileOpen(ExplodeScene)
    \/ \E i \in Masses, shifted \in BOOLEAN : SelectObject(i, TRUE, shifted)
    \/ SetCenter
    \/ \E i \in Masses : DeleteMass(i)
    \/ EditDelete
    \/ stateReset
    \/ StateSave
    \/ StateRestore
    \/ FileSaveAs
    \/ FileReopen
    \/ TickCenter

SpecCenter == Init /\ [][NextCenter]_vars

\* Two masses far enough apart for a click on one to find no other; the second
\* leaves the canvas at once and advance() deletes it as exploded.
\* New springs get no stiffness and no damping
RowScene ==
    <<Line(MAGIC_CMD, <<>>),
      Line("kspr", <<Format(Zero)>>),
      Line("kdmp", <<Format(Zero)>>),
      MassLine(1, R(40), R(50), Zero, Zero, One, One),
      MassLine(2, R(100), R(50), Inf, Zero, One, One)>>

\* The first of them alone
LoneScene ==
    <<Line(MAGIC_CMD, <<>>),
      Line("kspr", <<Format(Zero)>>),
      Line("kdmp", <<Format(Zero)>>),
      MassLine(1, R(40), R(50), Zero, Zero, One, One)>>

SpringScenes == {RowScene, LoneScene}
SpringPoints == {<<40, 50>>, <<100, 50>>}
Buttons == {"LeftButton", "RightButton"}

\* MainWindow::tick while the timer runs.  advance() over a spring with an end
\* past the end of masses_ is undefined: the behaviours are followed up to the
\* end of the program there
TickSpring ==
    /\ canvas_.action_
    /\ physics_.ticks < MaxSpringTicks
    /\ \/ ~Wild(system_) /\ TickBegin
       \/ /\ Wild(system_)
          /\ pc = "idle"
          /\ pc' = "crashed"
          /\ last' = "advance"
          /\ UNCHANGED <<system_, physics_, file_, savedSystem_, canvas_>>

\* A spring drawn from mass to mass with the mouse, and the events that can be
\* delivered between the press and the release; the state is saved once, as a
\* scene is opened
NextSpring ==
    \/ \E file \in SpringScenes : FileOpen(file)
    \/ start
    \/ \E i \in Masses : ~canvas_.mouseDown_ /\ SelectObject(i, TRUE, FALSE)
    \/ /\ Len(system_.masses_[system_.fakeMass_].parents) < MaxSpringParents
       /\ \E p \in SpringPoints, button \in Buttons :
              SpringPress(p[1], p[2], button, FALSE)
    \/ /\ springCount(system_) < MaxSpringSprings
       /\ \E p \in SpringPoints, restlen \in RestLengths :
              SpringRelease(p[1], p[2], restlen)
    \/ EditDelete
    \/ stateReset
    \/ savedSystem_ = NewSystem /\ last = "fileLoad" /\ StateSave
    \/ StateRestore
    \/ TickSpring

SpecSpring == Init /\ [][NextSpring]_vars

NextFile ==
    \/ EditUnsaved
    \/ FileSaveAs
    \/ FileReopen

SpecFile == Init /\ [][NextFile]_vars

---------------------------------------------------------------------------
(* Properties of the entity store.                                         *)

\* C1: in every reachable state, every ALIVE spring has m1 and m2 that are both
\* indices of ALIVE masses.
C1_AliveSpringEndsAlive ==
    \A s \in AliveSprings :
        /\ system_.springs_[s].m1 \in AliveMasses
        /\ system_.springs_[s].m2 \in AliveMasses

\* What deleteMass(i) is to change, and nothing else: mass i is no longer ALIVE,
\* exactly the ALIVE springs with an endpoint i are no longer ALIVE, every other
\* ALIVE flag, the two counts and every endpoint are as before.
DeleteMassFrame(i) ==
    LET before == system_
        after == system_'
        attached == {s \in AliveSprings : before.springs_[s].m1 = i
                                          \/ before.springs_[s].m2 = i}
    IN  /\ ~isAlive(after.masses_[i])
        /\ massCount(after) = massCount(before)
        /\ springCount(after) = springCount(before)
        /\ \A j \in Masses \ {i} :
               isAlive(after.masses_[j]) = isAlive(before.masses_[j])
        /\ \A s \in Springs :
               /\ isAlive(after.springs_[s]) = (s \in AliveSprings \ attached)
               /\ after.springs_[s].m1 = before.springs_[s].m1
               /\ after.springs_[s].m2 = before.springs_[s].m2

\* C2: for every reachable state and every ALIVE mass i, deleteMass(i) kills mass i
\* and exactly the ALIVE springs with m1 = i or m2 = i, and leaves every other ALIVE
\* flag, massCount, springCount and all endpoints unchanged.
C2_DeleteMassFrame ==
    [][\A i \in Masses : DeleteMass(i) => DeleteMassFrame(i)]_vars

\* The copy duplicateSelected makes of selected mass i / selected spring s: copies
\* are appended in index order
CopyOfMass(i) == massCount(system_) + Cardinality({j \in SelectedMasses : j < i})
CopyOfSpring(s) == springCount(system_) + Cardinality({t \in SelectedSprings : t < s})

DuplicateCopies ==
    LET before == system_
        after == system_'
    IN  /\ massCount(after) = massCount(before) + Cardinality(SelectedMasses)
        /\ springCount(after) = springCount(before) + Cardinality(SelectedSprings)
        /\ \A s \in SelectedSprings :
               LET orig == before.springs_[s]
                   copy == after.springs_[CopyOfSpring(s)]
               IN  (orig.m1 \in SelectedMasses /\ orig.m2 \in SelectedMasses) =>
                       /\ isAlive(copy)
                       /\ copy.m1 = CopyOfMass(orig.m1)
                       /\ copy.m2 = CopyOfMass(orig.m2)
                       /\ copy.m1 >= massCount(before)
                       /\ copy.m2 >= massCount(before)
                       /\ copy.ks = orig.ks
                       /\ copy.kd = orig.kd
                       /\ copy.restlen = orig.restlen

\* C3: duplicateSelected creates exactly one new mass per selected mass, and for
\* every selected spring with both endpoints selected exactly one new ALIVE spring
\* that joins the copies of its endpoints (never the originals) and has its ks, kd
\* and restlen.
C3_DuplicateCopies ==
    [][EditDuplicate => DuplicateCopies]_vars

\* A duplicate of a spring together with both its endpoints has just been made:
\* the original is still selected, its copy joins two masses above it
C3_Witness ==
    /\ last = "duplicateSelected"
    /\ \E s \in SelectedSprings, c \in AliveSprings \ SelectedSprings :
           /\ c > s
           /\ system_.springs_[s].m1 \in SelectedMasses
           /\ system_.springs_[s].m2 \in SelectedMasses
           /\ system_.springs_[c].m1 \notin SelectedMasses
           /\ system_.springs_[c].m2 \notin SelectedMasses
           /\ system_.springs_[c].m1 > system_.springs_[s].m1
           /\ system_.springs_[c].m2 > system_.springs_[s].m2
           /\ system_.springs_[c].restlen = system_.springs_[s].restlen

\* C4: after duplicateSelected, no spring created by the call is ALIVE with an
\* endpoint that is a pre-existing mass.
C4_NoCopyOnOriginalMass ==
    [][EditDuplicate =>
          \A c \in DOMAIN system_'.springs_ \ Springs :
              isAlive(system_'.springs_[c]) =>
                  /\ system_'.springs_[c].m1 \notin Masses
                  /\ system_'.springs_[c].m2 \notin Masses]_vars

\* The frame pacer over many calls of advance(): the time steps are the user's,
\* a scene file's (a "step" line is stored unchecked) and the adaptive stepper's
PacerSteps == {Rat(1, 1000), Rat(3, 100)}
StepScene(step) == <<Line(MAGIC_CMD, <<>>), Line("step", <<Format(step)>>)>>
PacerScenes == {RestScene(FALSE), StepScene(NaN)}

NextPacer ==
    \/ \E file \in PacerScenes : FileOpen(file)
    \/ \E v \in PacerSteps : TimeStepValueChanged(v)
    \/ physics_.ticks < MaxPacerTicks /\ TickBegin

SpecPacer == Init /\ [][NextPacer]_vars

\* Editing and stepping with a saved state to go back to
NextState ==
    \/ Create(MaxStateMasses, MaxStateSprings)
    \/ SelectAll
    \/ UnselectAll
    \/ EditDelete
    \/ Duplicate(MaxStateMasses, MaxStateSprings)
    \/ FakeSpring
    \/ StateSave
    \/ StateRestore
    \/ physics_.ticks < MaxStateTicks /\ TickBegin

SpecState == Init /\ [][NextState]_vars

---------------------------------------------------------------------------
(* Properties of the adaptive stepper.                                     *)

\* The pass of the restart loop that is about to run
ThisPass == AdaptivePass(system_, physics_.width_, physics_.height_)

\* The pass about to run has an error ratio of at least 1.0
Failing == pc = "restart" /\ RGe(ThisPass.maxerr, One)

\* The time step of the pass about to run is at the floor
AtFloor == RLe(ClampDt(system_.state_.cur_dt), DT_MIN)

\* C5: in adaptiveRungeKutta, an attempt whose error ratio maxerr is >= 1.0 is
\* committed as the new position and velocity only if cur_dt is at DT_MIN
\* (cur_dt <= 0.0001) for that attempt; every other attempt with maxerr >= 1.0 is
\* rejected and retried.
C5_CommitOnlyAtFloor ==
    [][Failing => IF AtFloor THEN pc' = "idle"
                  ELSE pc' = "restart" /\ system_'.masses_ = Rollback(system_).masses_]_vars

\* A pass of the restart loop that is rejected: rolled back, to be retried
Rejected == pc = "restart" /\ pc' = "restart"

DtIsNaN == IsNaN(system_.state_.cur_dt)

---------------------------------------------------------------------------
(* Properties of advance().                                                *)

\* advance() has just returned
Advanced == pc = "idle" /\ last = "advance"

FreeMasses == {i \in Masses : isFree(system_.masses_[i])}

\* Where mass i was when the advance() that has just returned was called: the
\* saved old values of a free mass, the position of any other
Before(i) ==
    IF i \in FreeMasses
    THEN <<system_.masses_[i].old_x, system_.masses_[i].old_y>>
    ELSE <<system_.masses_[i].x, system_.masses_[i].y>>

\* Mass i is where it was before the call, and has no velocity
Unmoved(i) ==
    /\ <<system_.masses_[i].x, system_.masses_[i].y>> = Before(i)
    /\ system_.masses_[i].vx = Zero
    /\ system_.masses_[i].vy = Zero

\* Spring s had its rest length before the call
WasAtRestLength(s) ==
    LET Apart(a, b) == RAdd(RSquare(RSub(a[1], b[1])), RSquare(RSub(a[2], b[2])))
    IN  Apart(Before(system_.springs_[s].m1), Before(system_.springs_[s].m2))
            = RSquare(system_.springs_[s].restlen)

\* Before the call every free mass had zero velocity, the forces were off and
\* every ALIVE spring had its rest length
WasInEquilibrium ==
    /\ \A i \in FreeMasses :
           system_.masses_[i].old_vx = Zero /\ system_.masses_[i].old_vy = Zero
    /\ \A f \in 0 .. BF_NUM - 1 : ~system_.state_.force_enabled[f]
    /\ \A s \in AliveSprings : WasAtRestLength(s)

\* C7: if every free mass has zero velocity and zero net applied force (all force
\* toggles off, and no ALIVE spring or every ALIVE spring at its rest length),
\* then after advance(), with either integrator and with walls and collisions on
\* or off, every free mass has the position it had and zero velocity; the state
\* after the call is one of equilibrium again, so this holds after any number of
\* calls.
C7_EquilibriumKept ==
    (Advanced /\ WasInEquilibrium) => \A i \in FreeMasses : Unmoved(i)

\* The screen radius of a mass, as the wall code uses it
Rad(i) == R(screenRadius(system_.masses_[i].radius))

\* Mass i was exactly on the boundary of an enabled wall before the call
WasAtWall(i) ==
    \/ system_.state_.w_left /\ Before(i)[1] = Rad(i)
    \/ system_.state_.w_right /\ Before(i)[1] = RSub(R(physics_.width_), Rad(i))
    \/ system_.state_.w_bottom /\ Before(i)[2] = Rad(i)
    \/ system_.state_.w_top /\ Before(i)[2] = RSub(R(physics_.height_), Rad(i))

\* Mass i was on the boundary of an enabled left or right wall: the wall code
\* then tests the speed along x, and along y on the bottom or top wall alone
WasAtSideWall(i) ==
    \/ system_.state_.w_left /\ Before(i)[1] = Rad(i)
    \/ system_.state_.w_right /\ Before(i)[1] = RSub(R(physics_.width_), Rad(i))

\* Free mass i was at rest on an enabled wall before the call, the stickiness
\* positive
WasDroppedAtWall(i) ==
    /\ i \in FreeMasses
    /\ system_.masses_[i].old_vx = Zero
    /\ system_.masses_[i].old_vy = Zero
    /\ WasAtWall(i)
    /\ RGt(system_.state_.cur_stick, Zero)

Gravity ==
    IF system_.state_.force_enabled[FR_GRAV]
    THEN <<COORD_DX(RMul(system_.state_.cur_grav_val[FR_GRAV],
                         SinDeg(system_.state_.cur_misc_val[FR_GRAV]))),
           COORD_DY(RMul(system_.state_.cur_grav_val[FR_GRAV],
                         CosDeg(system_.state_.cur_misc_val[FR_GRAV])))>>
    ELSE <<Zero, Zero>>

\* Nothing acts on mass i but gravity, and gravity pulls it along the normal of
\* its wall with less than cur_stick / mass
WeaklyPulled(i) ==
    /\ \A f \in {FR_CMASS, FR_PTATTRACT, FR_WALL} : ~system_.state_.force_enabled[f]
    /\ \A s \in AliveSprings :
           system_.springs_[s].m1 # i /\ system_.springs_[s].m2 # i
    /\ ~system_.state_.collide
    /\ RLt(RAbs(IF WasAtSideWall(i) THEN Gravity[1] ELSE Gravity[2]),
           RDiv(system_.state_.cur_stick, system_.masses_[i].mass))

Coasted(i) ==
    LET m == system_.masses_[i]
    IN  /\ m.x = RAdd(m.old_x, RMul(m.old_vx, system_.state_.cur_dt))
        /\ m.y = RAdd(m.old_y, RMul(m.old_vy, system_.state_.cur_dt))

\* The two free masses a and b, of equal mass and elasticity and d = (dx, dy)
\* apart, overlapped and approached each other along d
MetHeadOn(a, b, dx, dy) ==
    /\ a.mass = b.mass
    /\ a.elastic = b.elastic
    /\ RLt(Sqrt(RAdd(RSquare(dx), RSquare(dy))), R(a.radius + b.radius))
    /\ RMul(a.old_vx, dy) = RMul(a.old_vy, dx)
    /\ RMul(b.old_vx, dy) = RMul(b.old_vy, dx)
    /\ RGt(RAdd(RMul(RSub(a.old_vx, b.old_vx), dx),
                RMul(RSub(a.old_vy, b.old_vy), dy)), Zero)

\* The sum of the velocities (avx, avy) and (bvx, bvy) along d
AxisSum(avx, avy, bvx, bvy, dx, dy) ==
    RAdd(RMul(RAdd(avx, bvx), dx), RMul(RAdd(avy, bvy), dy))

\* The impact of a and b has left the sum of their velocities along d as it was
SumKept(a, b, dx, dy) ==
    AxisSum(a.vx, a.vy, b.vx, b.vy, dx, dy)
        = AxisSum(a.old_vx, a.old_vy, b.old_vx, b.old_vy, dx, dy)

\* The only ALIVE masses i < j are free and have collided in the call
Collided(i, j) ==
    /\ i < j
    /\ AliveMasses = {i, j}
    /\ FreeMasses = {i, j}
    /\ system_.state_.collide
    /\ Coasted(i)
    /\ Coasted(j)

\* C9: with collisions enabled, for two free ALIVE masses of equal mass and equal
\* elasticity that overlap and approach each other head-on along the line of
\* centers, the collision response leaves the sum of their velocity components
\* along the contact axis unchanged.
C9_ImpactKeepsAxisSum ==
    Advanced =>
        \A i \in Masses, j \in Masses :
            LET a == system_.masses_[i]
                b == system_.masses_[j]
            IN  (Collided(i, j) /\ MetHeadOn(a, b, RSub(b.x, a.x), RSub(b.y, a.y)))
                    => SumKept(a, b, RSub(b.x, a.x), RSub(b.y, a.y))

\* Two equal masses have met head-on at different speeds and have changed their
\* velocities
C9_Witness ==
    /\ Advanced
    /\ \E i \in Masses, j \in Masses :
           LET a == system_.masses_[i]
               b == system_.masses_[j]
           IN  /\ Collided(i, j)
               /\ MetHeadOn(a, b, RSub(b.x, a.x), RSub(b.y, a.y))
               /\ a.vx # a.old_vx
               /\ b.vy # b.old_vy
               /\ RAdd(a.old_vx, b.old_vx) # Zero
               /\ SumKept(a, b, RSub(b.x, a.x), RSub(b.y, a.y))

---------------------------------------------------------------------------
(* Properties of the scene files.                                          *)

\* The indices of the ALIVE elements of a vector from i on, in order
RECURSIVE AliveFrom(_, _)
AliveFrom(v, i) ==
    IF i \notin DOMAIN v THEN <<>>
    ELSE (IF isAlive(v[i]) THEN <<i>> ELSE <<>>) \o AliveFrom(v, i + 1)

\* What a scene file is to keep of a mass and of a spring
SameMass(a, b) ==
    /\ a.x = b.x /\ a.y = b.y /\ a.vx = b.vx /\ a.vy = b.vy
    /\ a.mass = b.mass /\ a.elastic = b.elastic
    /\ isFixed(a) = isFixed(b)
SameSpring(a, b) == a.ks = b.ks /\ a.kd = b.kd /\ a.restlen = b.restlen

\* End `to` of a reloaded spring is the reloaded mass of end `from` of the saved
\* one; ms and ml are the ALIVE masses saved and reloaded, in order
SameEnd(from, to, ms, ml) ==
    \E k \in DOMAIN ms : ms[k] = from /\ ml[k] = to

\* The scene `loaded` has the ALIVE masses and springs of the scene `saved`
SameScene(saved, loaded) ==
    LET ms == AliveFrom(saved.masses_, 0)
        ml == AliveFrom(loaded.masses_, 0)
        ss == AliveFrom(saved.springs_, 0)
        sl == AliveFrom(loaded.springs_, 0)
    IN  /\ Len(ml) = Len(ms)
        /\ Len(sl) = Len(ss)
        /\ \A k \in DOMAIN ms : SameMass(saved.masses_[ms[k]], loaded.masses_[ml[k]])
        /\ \A k \in DOMAIN ss :
               /\ SameSpring(saved.springs_[ss[k]], loaded.springs_[sl[k]])
               /\ SameEnd(saved.springs_[ss[k]].m1, loaded.springs_[sl[k]].m1, ms, ml)
               /\ SameEnd(saved.springs_[ss[k]].m2, loaded.springs_[sl[k]].m2, ms, ml)

\* C10: for every reachable scene, fileSave followed by fileLoad (full reload)
\* yields the same number of ALIVE masses and ALIVE springs, with equal position,
\* velocity, mass, elasticity and fixed flag per mass in order, equal ks, kd and
\* restlen per spring, and each reloaded spring's m1 and m2 referring to the
\* reloaded masses that correspond to the saved spring's endpoints.
C10_SaveLoadRoundTrip ==
    [][(FileReopen /\ file_ = fileSave(system_)) =>
           (pc' = "idle" /\ SameScene(system_, system_'))]_vars

---------------------------------------------------------------------------
(* Properties of the frame pacer.                                          *)

\* advance() returns on this step
Returning ==
    /\ pc' = "idle"
    /\ last' = "advance"
    /\ pc = "restart" \/ physics_'.ticks # physics_.ticks

\* C11: in any sequence of advance() calls, whatever the values of cur_dt,
\* advance() never returns false more than 8 times in a row: after 8 calls in a
\* row that returned false the next call returns true.
C11_NoNinthQuietCall ==
    /\ [](physics_.quiet <= 8)
    /\ [][(Returning /\ physics_.quiet = 8) => physics_'.redraw]_vars

\* The ninth call of advance() has returned true though the nine time steps add
\* up to less than 0.05
C11_Witness ==
    /\ Advanced
    /\ physics_.ticks = 9
    /\ physics_.redraw
    /\ physics_.time_elapsed = Rat(9, 1000)

\* The accumulated time of the call that returns, before the test against 0.05
Elapsed == RAdd(physics_.time_elapsed, system_'.state_.cur_dt)
Due == RGt(Elapsed, Rat(5, 100))

\* C12: whenever advance() returns true because the accumulated time exceeded
\* 0.05, the accumulator is reset: the accumulated time carried into the next
\* advance() call is zero.
C12_DueResetsElapsed ==
    [][(Returning /\ Due) => physics_'.redraw /\ physics_'.time_elapsed = Zero]_vars

\* C12, amended: whenever the accumulated time exceeds 0.05, advance() returns
\* true, takes 0.05 off the accumulator and zeroes num_since: the time in excess
\* of 0.05 is carried into the next advance() call.
C12_DueKeepsExcess ==
    [][(Returning /\ Due) =>
          /\ physics_'.redraw
          /\ physics_'.num_since = 0
          /\ physics_'.time_elapsed = RSub(Elapsed, Rat(5, 100))
          /\ RGt(physics_'.time_elapsed, Zero)]_vars

\* Two calls with a time step of 0.03: the second has returned true and has
\* carried 0.01 over
C12_Witness ==
    /\ Advanced
    /\ physics_.ticks = 2
    /\ physics_.redraw
    /\ physics_.num_since = 0
    /\ physics_.time_elapsed = Rat(1, 100)

---------------------------------------------------------------------------
(* Properties of the saved state and of the reserved entities.             *)

\* C13: a save-state followed by any sequence of editing and advance()
\* operations and then a restore-state yields a System equal in every mass,
\* spring, status flag, parent list and simulation parameter to the System at
\* the time of the save; mutating the live System after the save never changes
\* the saved copy.  As steps: the saved copy changes in a save-state only, to
\* the live System as it is; a restore-state makes the live System the saved copy.
C13_RestoreGivesSaved ==
    /\ [][savedSystem_' # savedSystem_ => last' = "stateSave"]_vars
    /\ [][last' = "stateSave" =>
            /\ savedSystem_' = system_
            /\ system_' = system_]_vars
    /\ [][last' = "stateRestore" =>
            /\ system_' = savedSystem_
            /\ savedSystem_' = savedSystem_]_vars

\* A scene with a spring, saved, stepped and edited, has just been restored
C13_Witness ==
    /\ last = "stateRestore"
    /\ physics_.ticks = 1
    /\ AliveSprings # {}
    /\ system_ = savedSystem_
    /\ savedSystem_ # NewSystem

\* The preview spring is ALIVE
FakeSpringAlive == isAlive(system_.springs_[system_.fakeSpring_])

\* C16: in every reachable state, mass index 0 is the fake mass and has the
\* FIXED flag set, and the fake spring (spring index 0) is ALIVE only between an
\* attachFakeSpring call and the following killFakeSpring call, whatever other
\* operations (save/restore-state, select-all, delete-selected,
\* duplicate-selected, advance) run in between or afterwards: it becomes ALIVE
\* in attachFakeSpring only, and killFakeSpring leaves it not ALIVE.
C16_FakeEntitiesReserved ==
    /\ [](/\ system_.fakeMass_ = 0
          /\ system_.fakeSpring_ = 0
          /\ isFixed(system_.masses_[0]))
    /\ [][(~FakeSpringAlive /\ FakeSpringAlive') => last' = "attachFakeSpring"]_vars
    /\ [][last' = "killFakeSpring" => ~FakeSpringAlive']_vars

---------------------------------------------------------------------------
(* Properties of the choice of the integrator and of the rollback.         *)

\* advance() is called on this step
Called == pc = "idle" /\ physics_'.ticks # physics_.ticks

\* The call returns on this step, after one rungeKutta(h) from the state it was
\* called in
RanFixed(h) ==
    /\ pc' = "idle"
    /\ system_' = Contacts(rungeKutta([SaveOld(system_) EXCEPT !.state_.cur_dt = h], h,
                                      physics_.width_, physics_.height_),
                           physics_.width_, physics_.height_)

\* C17: advance() performs exactly one integrator step per call: the fixed RK4
\* step with the current cur_dt if adaptive_step is off; the fixed RK4 step with
\* cur_dt set to the default 0.025 if adaptive_step is on and no spring is ALIVE;
\* the adaptive step only if adaptive_step is on and a spring is ALIVE.
C17_StepSelection ==
    [][Called =>
          IF ~system_.state_.adaptive_step
          THEN RanFixed(system_.state_.cur_dt)
          ELSE IF AliveSprings = {}
          THEN RanFixed(DEF_TSTEP) /\ system_'.state_.cur_dt = DEF_TSTEP
          ELSE pc' = "restart" /\ system_' = SaveOld(system_)]_vars

\* advance() has returned from the fixed step of a scene of masses without
\* springs, with adaptive stepping on and the default time step
C17_Witness ==
    /\ Advanced
    /\ system_.state_.adaptive_step
    /\ AliveSprings = {}
    /\ AliveMasses # {}
    /\ system_.state_.cur_dt = DEF_TSTEP
    /\ physics_.ticks = 1

\* Position and velocity of a mass, and its saved old values
Motion(m) == <<m.x, m.y, m.vx, m.vy>>
OldMotion(m) == <<m.old_x, m.old_y, m.old_vx, m.old_vy>>

\* C18: when an adaptive attempt is rejected, every free mass's position and
\* velocity are restored exactly to the values it had when the current advance()
\* call started: every retry starts from the same pre-step state, and the
\* rollback never restores a state older than the start of the current call.
\* As steps: the call enters the stepper with the masses as they were and the
\* old values just taken from them; a rejected pass leaves both as they were
\* before it; so every pass starts with each free mass at its old values.
C18_RetryFromCallStart ==
    /\ [][(pc = "idle" /\ pc' = "restart") =>
            \A i \in Masses :
                /\ Motion(system_'.masses_[i]) = Motion(system_.masses_[i])
                /\ isFree(system_.masses_[i]) =>
                       OldMotion(system_'.masses_[i]) = Motion(system_.masses_[i])]_vars
    /\ [][(pc = "restart" /\ pc' = "restart") =>
            \A i \in Masses :
                /\ Motion(system_'.masses_[i]) = Motion(system_.masses_[i])
                /\ OldMotion(system_'.masses_[i]) = OldMotion(system_.masses_[i])]_vars
    /\ [](pc = "restart" =>
            \A i \in FreeMasses :
                Motion(system_.masses_[i]) = OldMotion(system_.masses_[i]))

\* A pass has just been rejected, and the pass about to run moves a mass
C18_Witness ==
    /\ pc = "restart"
    /\ last = "restart"
    /\ \E i \in FreeMasses :
           Motion(ThisPass.sys.masses_[i]) # Motion(system_.masses_[i])

\* ---------------------------------------------------------------------------
\* Properties of the deletion of exploded masses and of the masses advance()
\* leaves alone
\* ---------------------------------------------------------------------------

\* None of x, y, vx, vy, ax, ay of the mass is NaN
NoNaN(m) ==
    /\ ~IsNaN(m.x) /\ ~IsNaN(m.y)
    /\ ~IsNaN(m.vx) /\ ~IsNaN(m.vy)
    /\ ~IsNaN(m.ax) /\ ~IsNaN(m.ay)

\* C14: after every advance() call, no free ALIVE mass has a NaN position,
\* velocity or acceleration: a free mass whose post-step x, y, vx, vy, ax or ay is
\* NaN has been deleted.
C14_NoNaNAfterAdvance ==
    Advanced => \A i \in FreeMasses : NoNaN(system_.masses_[i])

\* A step of advance(): the call up to the integrator, or a pass of the restart
\* loop with what follows it
Advancing == Called \/ pc = "restart"

\* C15: advance() never changes the position or the velocity of a mass that is
\* FIXED or that is not ALIVE when it is called, whichever integrator runs and
\* whatever the walls and the collisions do.  No step of advance() before the
\* last changes a status, so the masses a step finds FIXED or not ALIVE are the
\* ones the call found so.
C15_PinnedAndDeadKeepMotion ==
    /\ [][Advancing =>
            \A i \in Masses :
                (isFixed(system_.masses_[i]) \/ ~isAlive(system_.masses_[i])) =>
                    Motion(system_'.masses_[i]) = Motion(system_.masses_[i])]_vars
    /\ [][(Advancing /\ pc' = "restart") =>
            \A i \in Masses :
                system_'.masses_[i].status = system_.masses_[i].status]_vars

\* advance() has returned with the collisions on: a FIXED ALIVE mass that has a
\* velocity stays where it was next to a free mass that the call has moved
C15_Witness ==
    /\ Advanced
    /\ system_.state_.collide
    /\ \E i \in Masses, j \in Masses :
           /\ isAlive(system_.masses_[i]) /\ isFixed(system_.masses_[i])
           /\ system_.masses_[i].vx # Zero
           /\ isAlive(system_.masses_[j]) /\ ~isFixed(system_.masses_[j])
           /\ Motion(system_.masses_[j]) # OldMotion(system_.masses_[j])

\* ---------------------------------------------------------------------------
\* Properties of the parent lists
\* ---------------------------------------------------------------------------

\* The ALIVE springs of the store that have mass i as m1 or as m2
AliveSpringsOn(i) ==
    {s \in AliveSprings : system_.springs_[s].m1 = i \/ system_.springs_[s].m2 = i}

\* C19: in every state reachable by the operations of the entity store, the
\* parent list of every ALIVE mass i contains, without duplicates, exactly the
\* ALIVE springs that have i as m1 or m2; in particular a deleted spring is in
\* the parent list of neither of its endpoint masses.
C19_ParentsAreAliveSprings ==
    \A i \in AliveMasses :
        LET parents == system_.masses_[i].parents
        IN  /\ \A a, b \in DOMAIN parents : a # b => parents[a] # parents[b]
            /\ {parents[a] : a \in DOMAIN parents} = AliveSpringsOn(i)

\* How often v occurs in seq
RECURSIVE Count(_, _)
Count(seq, v) ==
    IF seq = <<>> THEN 0
    ELSE (IF Head(seq) = v THEN 1 ELSE 0) + Count(Tail(seq), v)

\* How many of the ends m1, m2 of spring s are mass i
EndsOn(sys, s, i) ==
    (IF sys.springs_[s].m1 = i THEN 1 ELSE 0) + (IF sys.springs_[s].m2 = i THEN 1 ELSE 0)

\* The parent list of every mass holds every spring of the store once for each
\* of its ends on the mass, and nothing else
Rebuilt(sys) ==
    \A i \in DOMAIN sys.masses_ :
        /\ \A s \in DOMAIN sys.springs_ :
               Count(sys.masses_[i].parents, s) = EndsOn(sys, s, i)
        /\ \A a \in DOMAIN sys.masses_[i].parents :
               sys.masses_[i].parents[a] \in DOMAIN sys.springs_

\* C20: after reconnectMasses(), whatever the parent lists were before, the
\* parent list of every mass i contains spring s once for each endpoint of s
\* (m1, m2) that equals i, for every spring s in the store, and contains nothing
\* else; calling reconnectMasses() twice gives the same lists as calling it
\* once.  Stated of the call at the end of every insertion, and of the function
\* on every store the editing reaches; the stores with a spring end outside
\* masses_, on which the call is undefined, are left out.
C20_ReconnectRebuilds ==
    /\ [][(last' = "fileInsert" /\ ~Wild(system_')) =>
            /\ Rebuilt(system_')
            /\ reconnectMasses(system_') = system_']_vars
    /\ [](~Wild(system_) =>
            /\ Rebuilt(reconnectMasses(system_))
            /\ reconnectMasses(reconnectMasses(system_)) = reconnectMasses(system_))

\* An insertion has ended: an ALIVE mass has a deleted spring in its parent list,
\* and the fake mass has the fake spring in its list twice
C20_Witness ==
    /\ pc = "idle"
    /\ last = "fileInsert"
    /\ ~Wild(system_)
    /\ \E i \in AliveMasses, s \in Springs \ AliveSprings :
           Count(system_.masses_[i].parents, s) = 1
    /\ Count(system_.masses_[system_.fakeMass_].parents, system_.fakeSpring_) = 2

\* ---------------------------------------------------------------------------
\* Properties of evalSelection
\* ---------------------------------------------------------------------------

\* A step of a handler that selects and then calls evalSelection
Selecting == last' \in {"selectAll", "selectObject"} /\ pc = "idle"

\* The selection evalSelection finds on such a step
SelectedMassesNext == {i \in DOMAIN system_'.masses_ : isSelected(system_'.masses_[i])}
SelectedSpringsNext == {i \in DOMAIN system_'.springs_ : isSelected(system_'.springs_[i])}

\* C21: evalSelection() changes a simulation parameter (cur_mass, the elasticity
\* cur_rest, fix_mass, cur_ks, cur_kd) only to a value that all selected masses
\* (mass, elasticity, fixed flag) or all selected springs (ks, kd) share: if two
\* selected entities differ on an attribute, the parameter is left unchanged.
C21_OnlyCommonValues ==
    [][Selecting =>
          /\ system_'.state_.cur_mass # system_.state_.cur_mass =>
                 \A i \in SelectedMassesNext :
                     system_'.masses_[i].mass = system_'.state_.cur_mass
          /\ system_'.state_.cur_rest # system_.state_.cur_rest =>
                 \A i \in SelectedMassesNext :
                     system_'.masses_[i].elastic = system_'.state_.cur_rest
          /\ system_'.state_.fix_mass # system_.state_.fix_mass =>
                 \A i \in SelectedMassesNext :
                     isFixed(system_'.masses_[i]) = system_'.state_.fix_mass
          /\ system_'.state_.cur_ks # system_.state_.cur_ks =>
                 \A i \in SelectedSpringsNext :
                     system_'.springs_[i].ks = system_'.state_.cur_ks
          /\ system_'.state_.cur_kd # system_.state_.cur_kd =>
                 \A i \in SelectedSpringsNext :
                     system_'.springs_[i].kd = system_'.state_.cur_kd]_vars

\* C22: whenever all selected masses agree on mass, elasticity or fixed flag, or
\* all selected springs agree on ks or kd, then after evalSelection() the
\* parameter equals that common value, and evalSelection() returns true exactly
\* when at least one parameter value changed.
C22_CommonValuesTaken ==
    [][Selecting =>
          /\ \A i \in SelectedMassesNext :
                 /\ (\A j \in SelectedMassesNext :
                         system_'.masses_[j].mass = system_'.masses_[i].mass) =>
                        system_'.state_.cur_mass = system_'.masses_[i].mass
                 /\ (\A j \in SelectedMassesNext :
                         system_'.masses_[j].elastic = system_'.masses_[i].elastic) =>
                        system_'.state_.cur_rest = system_'.masses_[i].elastic
                 /\ (\A j \in SelectedMassesNext :
                         isFixed(system_'.masses_[j]) = isFixed(system_'.masses_[i])) =>
                        system_'.state_.fix_mass = isFixed(system_'.masses_[i])
          /\ \A i \in SelectedSpringsNext :
                 /\ (\A j \in SelectedSpringsNext :
                         system_'.springs_[j].ks = system_'.springs_[i].ks) =>
                        system_'.state_.cur_ks = system_'.springs_[i].ks
                 /\ (\A j \in SelectedSpringsNext :
                         system_'.springs_[j].kd = system_'.springs_[i].kd) =>
                        system_'.state_.cur_kd = system_'.springs_[i].kd
          /\ evalSelection([system_' EXCEPT !.state_ = system_.state_]).changed
                 <=> system_'.state_ # system_.state_]_vars

\* ---------------------------------------------------------------------------
\* Properties of nearestObject
\* ---------------------------------------------------------------------------

\* The squared distance of mass i from the point the mouse is pressed at on
\* this step
RatingNext(i) ==
    RAdd(RSquare(RSub(system_.masses_[i].x, R(canvas_'.startPoint_[1]))),
         RSquare(RSub(system_.masses_[i].y, R(canvas_'.startPoint_[2]))))

\* The ALIVE masses within the threshold of that point: squared distance less
\* squared screen radius below MPROXIMITY squared
NearMassesNext ==
    {i \in AliveMasses :
        RLt(RSub(RatingNext(i), R(screenRadius(system_.masses_[i].radius)
                                  * screenRadius(system_.masses_[i].radius))),
            R(MPROXIMITY * MPROXIMITY))}

\* C23: nearestObject(x, y) returns only the index of an ALIVE entity or -1; if
\* at least one ALIVE mass lies within the radius-scaled proximity threshold it
\* returns a mass, never a spring, and among all ALIVE masses within the
\* threshold the one with the smallest squared center distance to (x, y),
\* whatever the order of the masses in the store.
C23_NearestMassReturned ==
    [][last' = "mousePressEdit" =>
          LET found == nearestObject(system_, canvas_'.startPoint_[1],
                                     canvas_'.startPoint_[2], FALSE)
          IN  /\ canvas_'.selection_ = found.closest
              /\ \/ found.closest = -1
                 \/ found.is_mass /\ found.closest \in AliveMasses
                 \/ ~found.is_mass /\ found.closest \in AliveSprings
              /\ NearMassesNext # {} =>
                     /\ found.is_mass
                     /\ found.closest \in NearMassesNext
                     /\ \A j \in NearMassesNext :
                            RLe(RatingNext(found.closest), RatingNext(j))]_vars

\* ---------------------------------------------------------------------------
\* Properties of the collisions and of the walls
\* ---------------------------------------------------------------------------

\* The velocity of mass i is not the one it had when advance() was called
Deflected(i) ==
    \/ system_.masses_[i].vx # system_.masses_[i].old_vx
    \/ system_.masses_[i].vy # system_.masses_[i].old_vy

\* Masses a and b overlap at the end of the step, and at the call a moved
\* towards b along the line of centers: (v1 - v2) . (p2 - p1) > 0
Closing(a, b) ==
    LET dx == RSub(b.x, a.x)
        dy == RSub(b.y, a.y)
    IN  /\ RLt(Sqrt(RAdd(RSquare(dx), RSquare(dy))), R(a.radius + b.radius))
        /\ RGt(RAdd(RMul(RSub(a.old_vx, b.old_vx), dx),
                    RMul(RSub(a.old_vy, b.old_vy), dy)), Zero)

\* C24: with collisions enabled, advance() changes the velocities of a pair of
\* ALIVE masses through the collision response only if their center distance is
\* less than the sum of their radii and their relative velocity has a closing
\* component along the line of centers, (v1 - v2) . (p2 - p1) > 0; a pair that
\* is separating along the line of centers is never modified.  Stated of two
\* free masses that no force and no wall has touched in the call.
C24_OnlyClosingPairsCollide ==
    Advanced =>
        \A i \in Masses, j \in Masses :
            (Collided(i, j) /\ (Deflected(i) \/ Deflected(j)))
                => Closing(system_.masses_[i], system_.masses_[j])

\* Mass m was inside the enabled walls when advance() was called: for the left
\* wall old_x >= screen radius, and likewise for the others
WasInside(m, mst, rad, width_, height_) ==
    /\ mst.w_left => RGe(m.old_x, R(rad))
    /\ mst.w_right => RLe(m.old_x, R(width_ - rad))
    /\ mst.w_bottom => RGe(m.old_y, R(rad))
    /\ mst.w_top => RLe(m.old_y, R(height_ - rad))

\* C25: every free mass that is inside an enabled wall before an advance() call
\* (for the left wall: old x >= screen radius, and likewise for right, top and
\* bottom) is still inside that wall after the call, its position clamped to the
\* boundary when the step crossed it; hence a mass that starts inside all
\* enabled walls stays inside them from call to call.
C25_WallsHold ==
    Advanced =>
        \A i \in FreeMasses :
            LET m == system_.masses_[i]
                mst == system_.state_
                rad == screenRadius(m.radius)
            IN  /\ (mst.w_left /\ RGe(m.old_x, R(rad))) => RGe(m.x, R(rad))
                /\ (mst.w_right /\ RLe(m.old_x, R(physics_.width_ - rad)))
                       => RLe(m.x, R(physics_.width_ - rad))
                /\ (mst.w_bottom /\ RGe(m.old_y, R(rad))) => RGe(m.y, R(rad))
                /\ (mst.w_top /\ RLe(m.old_y, R(physics_.height_ - rad)))
                       => RLe(m.y, R(physics_.height_ - rad))

\* advance() has returned: a mass that was inside all the walls, all enabled,
\* and moving into the left one is on it and moves away from it
C25_Witness ==
    /\ Advanced
    /\ \E i \in FreeMasses :
           LET m == system_.masses_[i]
           IN  /\ system_.state_.w_left /\ system_.state_.w_right
               /\ system_.state_.w_top /\ system_.state_.w_bottom
               /\ WasInside(m, system_.state_, screenRadius(m.radius),
                            physics_.width_, physics_.height_)
               /\ RGt(m.old_x, R(screenRadius(m.radius)))
               /\ m.x = R(screenRadius(m.radius))
               /\ RLt(m.old_vx, Zero)
               /\ RGt(m.vx, Zero)

\* ---------------------------------------------------------------------------
\* Properties of the loading of springs
\* ---------------------------------------------------------------------------

\* C26: after a file load or insert, every loaded spring that has an endpoint
\* reference which could not be mapped to a mass loaded from the same file is
\* deleted: no ALIVE spring is left whose m1 or m2 is an unmapped raw file
\* number, so no ALIVE spring of the file refers to a mass that was in the store
\* before or to an index outside the store.  Stated of the insertions: the
\* springs and masses of the file are the ones past the old ends of the vectors.
C26_UnmappedSpringsDeleted ==
    [][last' = "fileInsert" =>
          \A s \in DOMAIN system_'.springs_ :
              (s >= springCount(system_) /\ isAlive(system_'.springs_[s])) =>
                  /\ system_'.springs_[s].m1 \in DOMAIN system_'.masses_
                  /\ system_'.springs_[s].m2 \in DOMAIN system_'.masses_
                  /\ system_'.springs_[s].m1 >= massCount(system_)
                  /\ system_'.springs_[s].m2 >= massCount(system_)]_vars

\* ---------------------------------------------------------------------------
\* Properties of the adaptive time step
\* ---------------------------------------------------------------------------

\* DT_MIN <= dt <= DT_MAX
InStepRange(dt) == RGe(dt, DT_MIN) /\ RLe(dt, DT_MAX)

\* C27: the time step of an adaptive step stays in [DT_MIN, DT_MAX]: the h that
\* every pass of the stages uses is in that range, and when advance() returns
\* from the adaptive step, cur_dt (then used for the stick threshold and added
\* to the frame pacer's elapsed time) is in that range too.
C27_StepInRange ==
    /\ [](pc = "restart" => InStepRange(ClampDt(system_.state_.cur_dt)))
    /\ [][(pc = "restart" /\ pc' = "idle") =>
            InStepRange(system_'.state_.cur_dt)]_vars


(***************************************************************************)
(* C28: the selection holds live entities only.                            *)
(***************************************************************************)

NothingSelected(sys) ==
    /\ \A i \in DOMAIN sys.masses_ : ~isSelected(sys.masses_[i])
    /\ \A i \in DOMAIN sys.springs_ : ~isSelected(sys.springs_[i])

\* C28: in every reachable state every mass and every spring with the SELECTED
\* flag has the ALIVE flag too, and after deleteSelected() nothing is selected.
\* Stated of the editing operations with the preview spring.
C28_SelectedAreAlive ==
    /\ [](/\ \A i \in Masses : isSelected(system_.masses_[i]) => isAlive(system_.masses_[i])
          /\ \A i \in Springs :
                 isSelected(system_.springs_[i]) => isAlive(system_.springs_[i]))
    /\ [][last' = "deleteSelected" => NothingSelected(system_')]_vars


(***************************************************************************)
(* C29: the center mass.                                                   *)
(***************************************************************************)

\* C29: in every state reached by setCenter, deleteMass, deleteSelected, reset,
\* advance, the save and the restore of the state and the load of a file,
\* center_id is -1 or the index of an ALIVE mass of the store.
C29_CenterIsAliveMass ==
    \/ system_.state_.center_id = -1
    \/ /\ system_.state_.center_id \in Masses
       /\ isAlive(system_.masses_[system_.state_.center_id])


(***************************************************************************)
(* C30: the start mass of a spring drawn with the mouse.                   *)
(***************************************************************************)

SpringMade == last' = "mouseReleaseSpring" /\ springCount(system_') > springCount(system_)

\* C30: whatever is delivered between the press and the release in spring mode
\* (a tick, delete-selected, reset, restore, a file load), the mass remembered
\* at the press is an ALIVE mass of the store when the release makes the spring:
\* the release indexes no mass outside the store and attaches no ALIVE spring
\* to a dead mass.
C30_StartMassAliveAtRelease ==
    [][SpringMade =>
          /\ canvas_.selection_ \in Masses
          /\ isAlive(system_.masses_[canvas_.selection_])
          /\ \A i \in DOMAIN system_'.springs_ :
                 isAlive(system_'.springs_[i]) /\ i \notin Springs =>
                     /\ system_'.springs_[i].m1 \in DOMAIN system_'.masses_
                     /\ isAlive(system_'.masses_[system_'.springs_[i].m1])]_vars

=============================================================================
